---- MODULE Spec2Model ----
(***************************************************************************)
(* The job admission queue and server status of the embedded-ci server.    *)
(*                                                                         *)
(* main() builds two bounded tokio mpsc channels of capacity               *)
(* max_jobs_in_queue, one ServerStatus and one finished-results VecDeque,  *)
(* each behind a std::sync::Mutex, and spawns three tasks on the           *)
(* (multi-threaded) tokio runtime: the rocket request layer, the executor  *)
(* (app::run) and the collector (app::finished_job_collector).  Every      *)
(* action below is one step that holds at most the locks the code holds at *)
(* that point; the tasks interleave between steps.                         *)
(*                                                                         *)
(* A panic raised while a MutexGuard is alive poisons that mutex; every    *)
(* later lock().unwrap() on it panics, which ends the task (executor,      *)
(* collector) or the request (rocket answers 500).                         *)
(***************************************************************************)
EXTENDS Integers, Sequences, FiniteSets, TLC

\* Capacity of both channels and of the finished-results FIFO.
max_jobs_in_queue == 2

\* Number of job ids Job::from_desc hands out in a run of the model.
MaxJobs == 4

\* Concurrent POST /job requests in flight.
Handlers == {"h1", "h2"}

JobIds == 1..MaxJobs

\* Option::None for an Option<Uuid>.
None == 0

VARIABLES
    next_id,            \* the next fresh Uuid of Job::from_desc
    post,               \* per POST /job request: position, job id, reply
    register_channel,   \* jobs sent by post_job, not yet received
    server_status,      \* ServerStatus behind its mutex
    ss_poisoned,        \* the ServerStatus mutex is poisoned
    finished_job_queue, \* VecDeque<JobResult> behind its mutex (by job id)
    fq_poisoned,        \* the finished-results mutex is poisoned
    finished_channel,   \* results sent by the executor, not yet received
    exec_pc,            \* the executor's position in its loop
    exec_job,           \* the job the executor holds
    col_pc,             \* the collector's position in its loop
    col_result,         \* the result the collector holds
    col_evicted,        \* the id of the result the collector evicted
    get_reply,          \* the last answer of GET /job/by-id/<id>
    admitted,           \* history: ids in the order try_send accepted them
    accepted,           \* history: ids answered with Accepted
    started,            \* history: ids in the order job_started was called
    finished_log,       \* history: ids in the order job_finished was called
    cleared_log         \* history: ids job_cleared was called with

server_vars == <<next_id, post, register_channel, server_status, ss_poisoned,
                 finished_job_queue, fq_poisoned, finished_channel, exec_pc,
                 exec_job, col_pc, col_result, col_evicted, get_reply, admitted,
                 accepted, started, finished_log, cleared_log>>

hist == <<admitted, accepted, started, finished_log, cleared_log>>

----------------------------------------------------------------------------
(* Sequences *)

Range(s) == {s[i] : i \in 1..Len(s)}

\* VecDeque::contains / iter().find(|j| j.id == id)
Contains(s, id) == \E i \in 1..Len(s) : s[i] = id

IsPrefix(s, t) == Len(s) <= Len(t) /\ SubSeq(t, 1, Len(s)) = s

\* The last n elements of s (all of s when it is shorter).
LastN(s, n) == IF Len(s) <= n THEN s ELSE SubSeq(s, Len(s) - n + 1, Len(s))

----------------------------------------------------------------------------
(* ServerStatus, common/src/lib.rs *)

\* ServerStatus::default()
ServerStatusDefault ==
    [current_job |-> None, jobs_in_queue |-> <<>>, jobs_finished |-> {}]

\* pop_front() of a non-empty queue, then current_job.replace(id); the
\* error_if_not_eq! checks only log.
job_started(ss, id) ==
    [ss EXCEPT !.jobs_in_queue = Tail(@), !.current_job = id]

\* Variant of job_finished that forgets current_job.take().
job_finished_keeps_current(ss, id) ==
    [ss EXCEPT !.jobs_finished = @ \cup {id}]

\* current_job.take(), jobs_finished.insert(id)
job_finished(ss, id) ==
    [ss EXCEPT !.current_job = None, !.jobs_finished = @ \cup {id}]

\* jobs_finished.remove(&id)
job_cleared(ss, id) == [ss EXCEPT !.jobs_finished = @ \ {id}]

\* jobs_in_queue.push_back(id); the three checks before it only log.
job_enqueued(ss, id) == [ss EXCEPT !.jobs_in_queue = Append(@, id)]

job_status(ss, id) ==
    IF ss.current_job = id THEN "Running"
    ELSE IF Contains(ss.jobs_in_queue, id) THEN "InQueue"
    ELSE IF id \in ss.jobs_finished THEN "Finished"
    ELSE "NotFound"

----------------------------------------------------------------------------
(* tokio::sync::mpsc bounded channel *)

\* Variant of try_send that queues the value ahead of the others.
try_send_lifo(ch, closed, id) ==
    IF closed THEN [result |-> "Closed", ch |-> ch]
    ELSE IF Len(ch) >= max_jobs_in_queue THEN [result |-> "Full", ch |-> ch]
    ELSE [result |-> "Ok", ch |-> <<id>> \o ch]

\* Variant of try_send whose capacity test is off by one.
try_send_off_by_one(ch, closed, id) ==
    IF closed THEN [result |-> "Closed", ch |-> ch]
    ELSE IF Len(ch) > max_jobs_in_queue THEN [result |-> "Full", ch |-> ch]
    ELSE [result |-> "Ok", ch |-> Append(ch, id)]

\* Sender::try_send: Closed once the receiver is dropped, Full when the
\* channel holds its capacity, else the value is queued behind the others.
try_send(ch, closed, id) ==
    IF closed THEN [result |-> "Closed", ch |-> ch]
    ELSE IF Len(ch) >= max_jobs_in_queue THEN [result |-> "Full", ch |-> ch]
    ELSE [result |-> "Ok", ch |-> Append(ch, id)]

\* The receiver of register_channel lives in the executor task, the one of
\* finished_channel in the collector task.  A task that panicked dropped
\* its receiver, which closes the channel and drops what it still held.
RegisterClosed == exec_pc = "dead"
FinishedClosed == col_pc = "dead"

----------------------------------------------------------------------------
(* The runs of one job, server/src/runner.rs: one blocking worker per    *)
(* target calls Runner::run with the job's probe mutex.                  *)

\* Runs the executor spawns for one job (targets over all its tasks).
MaxWorkers == 2

\* Jobs the executor takes through their runs in a run of the model.
MaxRounds == 2

Workers == 1..MaxWorkers

\* No worker holds the probe mutex.
Free == 0

VARIABLES
    job_no,         \* how many jobs had their workers spawned
    run_pc,         \* per worker: its position in Runner::run
    run_holds,      \* per worker: "none", "probe" (Probe) or "session"
    run_retry,      \* per worker: it is in the attach-under-reset fallback
    run_result,     \* per worker: "none", "Ok" or the error run returned
    prev_attached,  \* history: workers that owned a Session in the job before
    probe_mutex,    \* the worker whose MutexGuard is alive, or Free
    open_probes,    \* probes (by worker) some open handle or session owns
    barrier         \* the job's barrier: its size and who signalled it

runner_vars == <<job_no, run_pc, run_holds, run_retry, run_result,
                 prev_attached, probe_mutex, open_probes, barrier>>

\* No job has been handed to workers yet.
RunnerInit ==
    /\ job_no = 0
    /\ run_pc = [w \in Workers |-> "unused"]
    /\ run_holds = [w \in Workers |-> "none"]
    /\ run_retry = [w \in Workers |-> FALSE]
    /\ run_result = [w \in Workers |-> "none"]
    /\ prev_attached = {}
    /\ probe_mutex = Free
    /\ open_probes = {}
    /\ barrier = [size |-> 0, arrived |-> {}]

----------------------------------------------------------------------------
(* Validation of a job description, common/src/job.rs *)

VARIABLES
    task_descs,     \* the tasks of the JobDesc handed to Job::from_desc
    validation,     \* what validate_tasks_coherency returned for them
    job_result,     \* the JobResult of the validated job, once built
    stored          \* history: the (task id, probe serial) outcomes stored

validator_vars == <<task_descs, validation, job_result, stored>>

\* validate_tasks_coherency has not been called.
NotValidated == [called |-> FALSE, ok |-> FALSE, tasks |-> <<>>, errors |-> <<>>]

\* JobResult::empty_from_job has not been called.
NoJobResult == [built |-> FALSE, id |-> 0, tasks |-> <<>>]

\* No job description is under validation.
ValidatorIdle ==
    /\ task_descs = <<>>
    /\ validation = NotValidated
    /\ job_result = NoJobResult
    /\ stored = {}

----------------------------------------------------------------------------
(* The inventory under construction, common/src/lib.rs Targets *)

VARIABLES
    inventory,      \* Targets::targets
    last_push       \* the last call of Targets::push: its target and result

inventory_vars == <<inventory, last_push>>

\* Targets::new(), before any push.
NotPushed == [called |-> FALSE, target |-> <<>>, ok |-> FALSE]

InventoryIdle ==
    /\ inventory = <<>>
    /\ last_push = NotPushed

----------------------------------------------------------------------------
(* Three UnordEqVec values and their comparisons, common/src/lib.rs *)

VARIABLES
    vec_a, vec_b, vec_c,    \* the vectors wrapped
    compared                \* the results of ==, once the vectors are compared

unord_vars == <<vec_a, vec_b, vec_c, compared>>

NotCompared ==
    [called |-> FALSE, aa |-> FALSE, ab |-> FALSE, ba |-> FALSE,
     bc |-> FALSE, ac |-> FALSE]

UnordIdle ==
    /\ vec_a = <<>>
    /\ vec_b = <<>>
    /\ vec_c = <<>>
    /\ compared = NotCompared

----------------------------------------------------------------------------
(* One Runner from Runner::new to core.run(): the addresses it takes from *)
(* the ELF file and what it does with them, server/src/runner.rs          *)

VARIABLES
    elf,            \* the ELF file: main symbol, vector table section
    runner,         \* the Runner that Runner::new built from it
    arm_pc,         \* the position of Runner::run between reset and resume
    core_pc,        \* the value run wrote to the PC register, if it wrote one
    breakpoints,    \* addresses a hardware breakpoint is set at
    patched         \* addresses run wrote the breakpoint instruction to

elf_vars == <<elf, runner, arm_pc, core_pc, breakpoints, patched>>

\* No ELF file was given, no Runner built.
NoElf == [main |-> 0, section |-> 0, vt |-> <<0, 0, 0, 0>>]
NoRunner ==
    [from_ram |-> FALSE, main |-> 0, start |-> 0, stack_pointer |-> 0,
     reset |-> 0, hardfault |-> 0]

ElfIdle ==
    /\ elf = NoElf
    /\ runner = NoRunner
    /\ arm_pc = "unused"
    /\ core_pc = <<>>
    /\ breakpoints = {}
    /\ patched = {}

----------------------------------------------------------------------------
(* One run from the drain loop to its return, server/src/runner.rs *)

VARIABLES
    drain_pc,       \* the position of Runner::run from the loop entry on
    core_status,    \* what the core is doing: what core.status() would read
    halted_seen,    \* history: core_halted() was true in this iteration
    classified,     \* history: the status the match after the loop read
    buffer,         \* the bytes read from the RTT up channel
    rtt_type,       \* how the firmware logs: plain text or defmt
    now,            \* Instant::now() - start
    run_timeout,    \* the timeout argument of run
    drain_result    \* what run returned

drain_vars == <<drain_pc, core_status, halted_seen, classified, buffer,
                rtt_type, now, run_timeout, drain_result>>

\* run has not reached its drain loop; nothing was returned.
NotClassified == [kind |-> "none", isr |-> 0]
NotReturned == [kind |-> "none", log |-> <<>>]

DrainIdle ==
    /\ drain_pc = "unused"
    /\ core_status = [kind |-> "Running", isr |-> 0]
    /\ halted_seen = FALSE
    /\ classified = NotClassified
    /\ buffer = <<>>
    /\ rtt_type = "PlainText"
    /\ now = 0
    /\ run_timeout = 0
    /\ drain_result = NotReturned

----------------------------------------------------------------------------
(* The run queue of server/src/app.rs: one RunQueue behind a mutex, one   *)
(* Worker task per target, one Cleanup task.                              *)

VARIABLES
    run_queue,          \* RunQueue.jobs: Vec<(u32, (JobStatus, RunJob))>
    worker_state,       \* per Worker: position in run and the job it took
    to_cleanup,         \* the ids Cleanup::run marked on its last pass
    max_target_timeout, \* server_configs.max_target_timeout
    register_reply,     \* what the last register_job returned
    registered,         \* history: the number of jobs pushed so far
    removed             \* history: the jobs Cleanup::run removed

legacy_vars == <<run_queue, worker_state, to_cleanup, max_target_timeout,
                 register_reply, registered, removed>>

\* register_job has not been called.
NoReply == [called |-> FALSE, ok |-> FALSE, id |-> 0]

\* The run queue is not in use.
LegacyIdle ==
    /\ run_queue = <<>>
    /\ worker_state = <<>>
    /\ to_cleanup = <<>>
    /\ max_target_timeout = 0
    /\ register_reply = NoReply
    /\ registered = 0
    /\ removed = {}

----------------------------------------------------------------------------
(* Logic-analyzer captures, sigrok-rs/src/lib.rs *)

VARIABLES
    capture,    \* per analyzer: the position of its capture, its handle
    child       \* per analyzer: the sigrok-cli child process

capture_vars == <<capture, child>>

\* No capture was started.
CaptureIdle ==
    /\ capture = <<>>
    /\ child = <<>>

unit_vars == <<inventory_vars, unord_vars, elf_vars, drain_vars, legacy_vars,
               capture_vars>>

UnitIdle ==
    InventoryIdle /\ UnordIdle /\ ElfIdle /\ DrainIdle /\ LegacyIdle
    /\ CaptureIdle

vars == <<server_vars, runner_vars, validator_vars, unit_vars>>

----------------------------------------------------------------------------
ServerInit ==
    /\ next_id = 1
    /\ post = [h \in Handlers |-> [pc |-> "idle", id |-> None, reply |-> "none"]]
    /\ register_channel = <<>>
    /\ server_status = ServerStatusDefault
    /\ ss_poisoned = FALSE
    /\ finished_job_queue = <<>>
    /\ fq_poisoned = FALSE
    /\ finished_channel = <<>>
    /\ exec_pc = "recv"
    /\ exec_job = None
    /\ col_pc = "recv"
    /\ col_result = None
    /\ col_evicted = None
    /\ get_reply = [id |-> None, kind |-> "none"]
    /\ admitted = <<>>
    /\ accepted = {}
    /\ started = <<>>
    /\ finished_log = <<>>
    /\ cleared_log = {}

Init == ServerInit /\ RunnerInit /\ ValidatorIdle /\ UnitIdle

----------------------------------------------------------------------------
(* POST /job, server/src/routes.rs post_job *)

Reply(kind) == [pc |-> "done", id |-> None, reply |-> kind]

\* Variant of post_job that records the id with job_enqueued before it
\* offers the job to register_channel.
PostJob_EnqueueFirst(h) ==
    /\ UNCHANGED <<runner_vars, validator_vars, unit_vars>>
    /\ post[h].pc = "idle"
    /\ ~ss_poisoned
    /\ \E valid \in BOOLEAN :
        IF ~valid
        THEN /\ post' = [post EXCEPT ![h] = Reply("InvalidJob")]
             /\ UNCHANGED <<next_id, register_channel, server_status,
                            admitted, accepted>>
        ELSE /\ next_id <= MaxJobs
             /\ next_id' = next_id + 1
             /\ server_status' = job_enqueued(server_status, next_id)
             /\ LET r == try_send(register_channel, RegisterClosed, next_id) IN
                 /\ register_channel' = r.ch
                 /\ IF r.result = "Ok"
                    THEN /\ post' = [post EXCEPT ![h] =
                                [pc |-> "done", id |-> next_id,
                                 reply |-> "Accepted"]]
                         /\ admitted' = Append(admitted, next_id)
                         /\ accepted' = accepted \cup {next_id}
                    ELSE /\ post' = [post EXCEPT ![h] =
                                Reply(IF r.result = "Full"
                                      THEN "TooManyJobs"
                                      ELSE "InternalQueueClosed")]
                         /\ UNCHANGED <<admitted, accepted>>
    /\ UNCHANGED <<ss_poisoned, finished_job_queue, fq_poisoned,
                   finished_channel, exec_pc, exec_job, col_pc, col_result,
                   col_evicted, get_reply, started, finished_log, cleared_log>>

\* Job::from_desc, then try_send of the job.  A descriptor that fails
\* validation is answered InvalidJob; a valid one gets a fresh id and is
\* offered to register_channel without blocking.
PostJob(h) ==
    /\ UNCHANGED <<runner_vars, validator_vars, unit_vars>>
    /\ post[h].pc = "idle"
    /\ \E valid \in BOOLEAN :
        IF ~valid
        THEN /\ post' = [post EXCEPT ![h] = Reply("InvalidJob")]
             /\ UNCHANGED <<next_id, register_channel, admitted>>
        ELSE /\ next_id <= MaxJobs
             /\ next_id' = next_id + 1
             /\ LET r == try_send(register_channel, RegisterClosed, next_id) IN
                 /\ register_channel' = r.ch
                 /\ IF r.result = "Ok"
                    THEN /\ post' = [post EXCEPT ![h] =
                                [pc |-> "job_enqueued", id |-> next_id,
                                 reply |-> "none"]]
                         /\ admitted' = Append(admitted, next_id)
                    ELSE /\ post' = [post EXCEPT ![h] =
                                Reply(IF r.result = "Full"
                                      THEN "TooManyJobs"
                                      ELSE "InternalQueueClosed")]
                         /\ UNCHANGED admitted
    /\ UNCHANGED <<server_status, ss_poisoned, finished_job_queue, fq_poisoned,
                   finished_channel, exec_pc, exec_job, col_pc, col_result,
                   col_evicted, get_reply, accepted, started, finished_log,
                   cleared_log>>

\* server_status.lock().unwrap().job_enqueued(job.id), then Ok(Accepted(..)).
\* On a poisoned mutex the unwrap panics and the request ends without reply
\* from the handler.
PostJobEnqueued(h) ==
    /\ UNCHANGED <<runner_vars, validator_vars, unit_vars>>
    /\ post[h].pc = "job_enqueued"
    /\ IF ss_poisoned
       THEN /\ post' = [post EXCEPT ![h] = Reply("Panicked")]
            /\ UNCHANGED <<server_status, accepted>>
       ELSE /\ server_status' = job_enqueued(server_status, post[h].id)
            /\ accepted' = accepted \cup {post[h].id}
            /\ post' = [post EXCEPT ![h] =
                   [pc |-> "done", id |-> post[h].id, reply |-> "Accepted"]]
    /\ UNCHANGED <<next_id, register_channel, ss_poisoned, finished_job_queue,
                   fq_poisoned, finished_channel, exec_pc, exec_job, col_pc,
                   col_result, col_evicted, get_reply, admitted, started,
                   finished_log, cleared_log>>

\* The response has left; the handler slot serves the next request.
PostJobReturn(h) ==
    /\ UNCHANGED <<runner_vars, validator_vars, unit_vars>>
    /\ post[h].pc = "done"
    /\ post' = [post EXCEPT ![h] = [pc |-> "idle", id |-> None, reply |-> "none"]]
    /\ UNCHANGED <<next_id, register_channel, server_status, ss_poisoned,
                   finished_job_queue, fq_poisoned, finished_channel, exec_pc,
                   exec_job, col_pc, col_result, col_evicted, get_reply, hist>>

----------------------------------------------------------------------------
(* GET /job/by-id/<id>, server/src/routes.rs get_job_by_id *)

\* The handler holds the ServerStatus guard for its whole body and the
\* finished-results guard across the inner match, so a panic in it poisons
\* the mutexes whose guards are alive.
GetJobById(id) ==
    /\ UNCHANGED <<runner_vars, validator_vars, unit_vars>>
    /\ IF ss_poisoned
       THEN /\ get_reply' = [id |-> id, kind |-> "Panicked"]
            /\ UNCHANGED <<ss_poisoned, fq_poisoned>>
       ELSE LET st == job_status(server_status, id) IN
            IF st # "Finished"
            THEN /\ get_reply' = [id |-> id, kind |-> st]
                 /\ UNCHANGED <<ss_poisoned, fq_poisoned>>
            ELSE IF fq_poisoned
            THEN /\ get_reply' = [id |-> id, kind |-> "Panicked"]
                 /\ ss_poisoned' = TRUE
                 /\ UNCHANGED fq_poisoned
            ELSE IF Contains(finished_job_queue, id)
            THEN /\ get_reply' = [id |-> id, kind |-> "Found"]
                 /\ UNCHANGED <<ss_poisoned, fq_poisoned>>
            ELSE \* unreachable!()
                 /\ get_reply' = [id |-> id, kind |-> "Panicked"]
                 /\ ss_poisoned' = TRUE
                 /\ fq_poisoned' = TRUE
    /\ UNCHANGED <<next_id, post, register_channel, server_status,
                   finished_job_queue, finished_channel, exec_pc, exec_job,
                   col_pc, col_result, col_evicted, hist>>

----------------------------------------------------------------------------
(* The executor, app::run: the single consumer of register_channel *)

\* register_job_rx.recv().await
ExecutorRecv ==
    /\ UNCHANGED <<runner_vars, validator_vars, unit_vars>>
    /\ exec_pc = "recv"
    /\ register_channel # <<>>
    /\ exec_job' = Head(register_channel)
    /\ register_channel' = Tail(register_channel)
    /\ exec_pc' = "job_started"
    /\ UNCHANGED <<next_id, post, server_status, ss_poisoned,
                   finished_job_queue, fq_poisoned, finished_channel, col_pc,
                   col_result, col_evicted, get_reply, hist>>

\* server_status.lock().unwrap().job_started(job.id).  lock().unwrap()
\* panics on a poisoned mutex; pop_front().unwrap() panics on an empty
\* queue, with the guard alive.  A panic ends the executor task.
ExecutorJobStarted ==
    /\ UNCHANGED <<runner_vars, validator_vars, unit_vars>>
    /\ exec_pc = "job_started"
    /\ IF ss_poisoned
       THEN /\ exec_pc' = "dead"
            /\ exec_job' = None
            /\ register_channel' = <<>>
            /\ UNCHANGED <<server_status, ss_poisoned, started>>
       ELSE IF server_status.jobs_in_queue = <<>>
       THEN /\ exec_pc' = "dead"
            /\ exec_job' = None
            /\ register_channel' = <<>>
            /\ ss_poisoned' = TRUE
            /\ UNCHANGED <<server_status, started>>
       ELSE /\ server_status' = job_started(server_status, exec_job)
            /\ started' = Append(started, exec_job)
            /\ exec_pc' = "run"
            /\ UNCHANGED <<exec_job, ss_poisoned, register_channel>>
    /\ UNCHANGED <<next_id, post, finished_job_queue, fq_poisoned,
                   finished_channel, col_pc, col_result, col_evicted,
                   get_reply, admitted, accepted, finished_log, cleared_log>>

\* The runs of the job: workers, barrier, collection of the outcomes into
\* the JobResult.  None of it touches the queues or the status.
ExecutorRun ==
    /\ UNCHANGED <<runner_vars, validator_vars, unit_vars>>
    /\ exec_pc = "run"
    /\ exec_pc' = "send"
    /\ UNCHANGED <<next_id, post, register_channel, server_status, ss_poisoned,
                   finished_job_queue, fq_poisoned, finished_channel, exec_job,
                   col_pc, col_result, col_evicted, get_reply, hist>>

\* finished_job_tx.send(job_result).await: waits for room, fails once the
\* collector is gone; job_finished follows only a successful send.
ExecutorSend ==
    /\ UNCHANGED <<runner_vars, validator_vars, unit_vars>>
    /\ exec_pc = "send"
    /\ IF FinishedClosed
       THEN /\ exec_pc' = "recv"
            /\ exec_job' = None
            /\ UNCHANGED finished_channel
       ELSE /\ Len(finished_channel) < max_jobs_in_queue
            /\ finished_channel' = Append(finished_channel, exec_job)
            /\ exec_pc' = "job_finished"
            /\ UNCHANGED exec_job
    /\ UNCHANGED <<next_id, post, register_channel, server_status, ss_poisoned,
                   finished_job_queue, fq_poisoned, col_pc, col_result,
                   col_evicted, get_reply, hist>>

\* server_status.lock().unwrap().job_finished(id)
ExecutorJobFinished ==
    /\ UNCHANGED <<runner_vars, validator_vars, unit_vars>>
    /\ exec_pc = "job_finished"
    /\ IF ss_poisoned
       THEN /\ exec_pc' = "dead"
            /\ register_channel' = <<>>
            /\ UNCHANGED <<server_status, finished_log>>
       ELSE /\ server_status' = job_finished(server_status, exec_job)
            /\ finished_log' = Append(finished_log, exec_job)
            /\ exec_pc' = "recv"
            /\ UNCHANGED register_channel
    /\ exec_job' = None
    /\ UNCHANGED <<next_id, post, ss_poisoned, finished_job_queue,
                   fq_poisoned, finished_channel, col_pc, col_result,
                   col_evicted, get_reply, admitted, accepted, started,
                   cleared_log>>

----------------------------------------------------------------------------
(* The collector, app::finished_job_collector: drains finished_channel  *)
(* into the bounded finished-results FIFO; each lock is taken for one   *)
(* operation.                                                           *)

\* finished_job_rx.recv().await
CollectorRecv ==
    /\ UNCHANGED <<runner_vars, validator_vars, unit_vars>>
    /\ col_pc = "recv"
    /\ finished_channel # <<>>
    /\ col_result' = Head(finished_channel)
    /\ finished_channel' = Tail(finished_channel)
    /\ col_pc' = "evict"
    /\ UNCHANGED <<next_id, post, register_channel, server_status, ss_poisoned,
                   finished_job_queue, fq_poisoned, exec_pc, exec_job,
                   col_evicted, get_reply, hist>>

\* At capacity the oldest result leaves the FIFO.
CollectorEvict ==
    /\ UNCHANGED <<runner_vars, validator_vars, unit_vars>>
    /\ col_pc = "evict"
    /\ IF fq_poisoned
       THEN /\ col_pc' = "dead"
            /\ col_result' = None
            /\ finished_channel' = <<>>
            /\ UNCHANGED <<finished_job_queue, col_evicted>>
       ELSE IF Len(finished_job_queue) >= max_jobs_in_queue
       THEN /\ col_evicted' = Head(finished_job_queue)
            /\ finished_job_queue' = Tail(finished_job_queue)
            /\ col_pc' = "job_cleared"
            /\ UNCHANGED <<col_result, finished_channel>>
       ELSE /\ col_pc' = "push"
            /\ UNCHANGED <<finished_job_queue, col_evicted, col_result,
                           finished_channel>>
    /\ UNCHANGED <<next_id, post, register_channel, server_status, ss_poisoned,
                   fq_poisoned, exec_pc, exec_job, get_reply, hist>>

\* server_status.lock().unwrap().job_cleared(evicted.id)
CollectorJobCleared ==
    /\ UNCHANGED <<runner_vars, validator_vars, unit_vars>>
    /\ col_pc = "job_cleared"
    /\ IF ss_poisoned
       THEN /\ col_pc' = "dead"
            /\ col_result' = None
            /\ finished_channel' = <<>>
            /\ UNCHANGED <<server_status, cleared_log>>
       ELSE /\ server_status' = job_cleared(server_status, col_evicted)
            /\ cleared_log' = cleared_log \cup {col_evicted}
            /\ col_pc' = "push"
            /\ UNCHANGED <<col_result, finished_channel>>
    /\ col_evicted' = None
    /\ UNCHANGED <<next_id, post, register_channel, ss_poisoned,
                   finished_job_queue, fq_poisoned, exec_pc, exec_job,
                   get_reply, admitted, accepted, started, finished_log>>

\* The new result becomes the youngest of the FIFO.
CollectorPush ==
    /\ UNCHANGED <<runner_vars, validator_vars, unit_vars>>
    /\ col_pc = "push"
    /\ IF fq_poisoned
       THEN /\ col_pc' = "dead"
            /\ finished_channel' = <<>>
            /\ UNCHANGED finished_job_queue
       ELSE /\ finished_job_queue' = Append(finished_job_queue, col_result)
            /\ col_pc' = "recv"
            /\ UNCHANGED finished_channel
    /\ col_result' = None
    /\ UNCHANGED <<next_id, post, register_channel, server_status, ss_poisoned,
                   fq_poisoned, exec_pc, exec_job, col_evicted, get_reply,
                   hist>>

----------------------------------------------------------------------------
Next ==
    \/ \E h \in Handlers : PostJob(h)
    \/ \E h \in Handlers : PostJobEnqueued(h)
    \/ \E h \in Handlers : PostJobReturn(h)
    \/ \E id \in JobIds : GetJobById(id)
    \/ ExecutorRecv
    \/ ExecutorJobStarted
    \/ ExecutorRun
    \/ ExecutorSend
    \/ ExecutorJobFinished
    \/ CollectorRecv
    \/ CollectorEvict
    \/ CollectorJobCleared
    \/ CollectorPush

Spec == Init /\ [][Next]_vars

----------------------------------------------------------------------------
(* Claims *)

\* C1: in every reachable state current_job, queued and finished are pairwise
\* disjoint: no job id is in two of the three collections at the same time.
C1_PairwiseDisjoint ==
    LET cur == IF server_status.current_job = None
               THEN {} ELSE {server_status.current_job}
        que == Range(server_status.jobs_in_queue)
        fin == server_status.jobs_finished
    IN  cur \cap que = {} /\ cur \cap fin = {} /\ que \cap fin = {}

\* C2: whenever the executor is about to call job_started(id), the queued
\* sequence is non-empty and its head is id.
C2_HeadIsStartedJob ==
    (exec_pc = "job_started" /\ ~ss_poisoned) =>
        /\ server_status.jobs_in_queue # <<>>
        /\ Head(server_status.jobs_in_queue) = exec_job

\* C3: jobs are started in admission order: the ids for which job_started
\* ran are, in order, the first ids try_send accepted.
C3_StartedInAdmissionOrder == IsPrefix(started, admitted)

C3_Witness == Len(started) >= 2 /\ Len(admitted) > Len(started)

\* C4: a single job is in flight: job_started is only called when
\* current_job is empty and job_finished ran for every job started before.
C4_SingleJobInFlight ==
    /\ IsPrefix(finished_log, started)
    /\ Len(started) <= Len(finished_log) + 1
    /\ (exec_pc = "job_started" /\ ~ss_poisoned) =>
           /\ server_status.current_job = None
           /\ started = finished_log

C4_Witness ==
    /\ exec_pc = "job_started"
    /\ ~ss_poisoned
    /\ Len(started) >= 1
    /\ server_status.jobs_in_queue # <<>>

Rejections == {"InvalidJob", "TooManyJobs", "InternalQueueClosed"}

\* C5: a valid POST /job that finds max_jobs_in_queue jobs waiting in
\* register_channel is answered TooManyJobs in that very step (it does not
\* wait) and queues nothing.
C5_Backpressure ==
    [][\A h \in Handlers :
          ( /\ post[h].pc = "idle"
            /\ post'[h] # post[h]
            /\ next_id' = next_id + 1
            /\ Len(register_channel) = max_jobs_in_queue )
          => /\ post'[h].pc = "done"
             /\ post'[h].reply = "TooManyJobs"
             /\ register_channel' = register_channel]_vars

\* The submission after max_jobs_in_queue accepted ones, before the executor
\* picked any up, was rejected.
C5_Witness ==
    /\ \E h \in Handlers : post[h].reply = "TooManyJobs"
    /\ Len(admitted) = max_jobs_in_queue
    /\ Len(register_channel) = max_jobs_in_queue
    /\ started = <<>>
    /\ exec_pc = "recv"

\* C6: a POST /job answered InvalidJob, TooManyJobs or InternalQueueClosed
\* is answered in the request's first step and leaves register_channel and
\* ServerStatus as they were: nothing is queued, job_enqueued is not called.
C6_RejectedLeavesUnchanged ==
    [][\A h \in Handlers :
          ( /\ post[h].pc # "done"
            /\ post'[h].pc = "done"
            /\ post'[h].reply \in Rejections )
          => /\ post[h].pc = "idle"
             /\ register_channel' = register_channel
             /\ server_status' = server_status
             /\ admitted' = admitted
             /\ accepted' = accepted]_vars

C6_Witness ==
    \E h1, h2 \in Handlers :
        /\ post[h1].reply = "InternalQueueClosed"
        /\ post[h2].reply = "InvalidJob"

\* C7: a job answered Accepted is never reported NotFound unless it has
\* finished and been evicted.
C7_AcceptedIsQueryable ==
    \A id \in accepted :
        job_status(server_status, id) = "NotFound" => id \in cleared_log

\* C8: the finished set and the finished-results FIFO never hold more than
\* max_jobs_in_queue entries.
C8_FinishedBounded ==
    /\ Cardinality(server_status.jobs_finished) <= max_jobs_in_queue
    /\ Len(finished_job_queue) <= max_jobs_in_queue

\* C9: the collector removes a stored result only when the FIFO holds
\* max_jobs_in_queue results, it removes exactly the oldest one and passes
\* its id to job_cleared, after which job_status of that id is NotFound;
\* once the collector has stored every result sent, the FIFO holds exactly
\* the most recently finished max_jobs_in_queue jobs.
C9_EvictionClearsOldest ==
    [][/\ ( /\ col_pc = "recv"
            /\ finished_channel = <<>>
            /\ exec_pc # "job_finished" )
          => finished_job_queue = LastN(finished_log, max_jobs_in_queue)
       /\ Len(finished_job_queue') < Len(finished_job_queue) =>
            /\ Len(finished_job_queue) = max_jobs_in_queue
            /\ finished_job_queue' = Tail(finished_job_queue)
            /\ col_evicted' = Head(finished_job_queue)
       /\ cleared_log' # cleared_log =>
            /\ cleared_log' = cleared_log \cup {col_evicted}
            /\ job_status(server_status', col_evicted) = "NotFound"]_vars

\* C10: whenever job_status(id) is Finished, the finished-results FIFO holds
\* the result of id, so get_job_by_id never reaches unreachable!().
C10_FinishedHasResult ==
    \A id \in JobIds :
        job_status(server_status, id) = "Finished"
            => Contains(finished_job_queue, id)

----------------------------------------------------------------------------
(* Runner::run, server/src/runner.rs.  Every fallible call of the probe  *)
(* library either succeeds or makes run return its error through `?`.    *)

\* Errors run returns before the target was resumed.
SetupFailures ==
    {"ProbeNotFound", "OpenFailed", "AttachFailed", "FlashError",
     "NoBreakpointUnits", "UnableToReachMain", "ProbeRs"}

\* Outcomes of run without a Session: none yet, or an error before attach.
NoSession == {"none", "ProbeNotFound", "OpenFailed", "AttachFailed"}

\* Positions of run before core.run() has resumed the target.
SetupPcs ==
    {"lock", "list_all", "open", "set_speed", "unlock", "attach",
     "attach_under_reset", "flash", "breakpoint_units", "reach_main",
     "arm_exit", "resume"}

\* Positions of get_probe between probe_mutex.lock() and drop(guard).
EnumerationPcs == {"list_all", "open", "set_speed", "unlock"}

\* The workers of the job at hand.
Spawned == {w \in Workers : run_pc[w] # "unused"}

\* Variant of Return that keeps the Probe or Session alive past the call.
Return_KeepsHandle(w, result) ==
    /\ run_pc' = [run_pc EXCEPT ![w] = "returned"]
    /\ run_result' = [run_result EXCEPT ![w] = result]
    /\ probe_mutex' = IF probe_mutex = w THEN Free ELSE probe_mutex
    /\ UNCHANGED <<run_holds, open_probes>>
    /\ UNCHANGED <<job_no, prev_attached, run_retry, barrier, server_vars,
                   validator_vars, unit_vars>>

\* Variant of Return that leaves the guard of the probe mutex locked.
Return_KeepsGuard(w, result) ==
    /\ run_pc' = [run_pc EXCEPT ![w] = "returned"]
    /\ run_result' = [run_result EXCEPT ![w] = result]
    /\ run_holds' = [run_holds EXCEPT ![w] = "none"]
    /\ open_probes' = open_probes \ {w}
    /\ UNCHANGED <<job_no, prev_attached, run_retry, barrier, probe_mutex,
                   server_vars, validator_vars, unit_vars>>

\* run returns `result`: its locals leave scope, which drops the Probe or
\* the Session it owns and, on an early return of get_probe, the guard.
Return(w, result) ==
    /\ run_pc' = [run_pc EXCEPT ![w] = "returned"]
    /\ run_result' = [run_result EXCEPT ![w] = result]
    /\ probe_mutex' = IF probe_mutex = w THEN Free ELSE probe_mutex
    /\ run_holds' = [run_holds EXCEPT ![w] = "none"]
    /\ open_probes' = open_probes \ {w}
    /\ UNCHANGED <<job_no, prev_attached, run_retry, barrier, server_vars,
                   validator_vars, unit_vars>>

\* The call succeeded: run goes on at `to` and owns what it owned.
Goto(w, to) ==
    /\ run_pc' = [run_pc EXCEPT ![w] = to]
    /\ UNCHANGED <<job_no, prev_attached, run_holds, run_retry, run_result, probe_mutex,
                   open_probes, barrier, server_vars, validator_vars, unit_vars>>

\* A fallible call followed by `?`.
Try(w, to, err) ==
    \E ok \in BOOLEAN : IF ok THEN Goto(w, to) ELSE Return(w, err)

\* The executor hands the next job to its workers: a fresh probe mutex, a
\* barrier sized to the number of runs, one worker per target.
SpawnWorkers ==
    /\ job_no < MaxRounds
    /\ \A w \in Workers : run_pc[w] \in {"unused", "returned"}
    /\ job_no' = job_no + 1
    /\ \E n \in 1..MaxWorkers :
        /\ run_pc' = [w \in Workers |-> IF w <= n THEN "lock" ELSE "unused"]
        /\ barrier' = [size |-> n, arrived |-> {}]
    /\ run_holds' = [w \in Workers |-> "none"]
    /\ run_retry' = [w \in Workers |-> FALSE]
    /\ run_result' = [w \in Workers |-> "none"]
    /\ prev_attached' = {w \in Workers : run_result[w] \notin NoSession}
    /\ probe_mutex' = Free
    /\ UNCHANGED <<open_probes, server_vars, validator_vars, unit_vars>>

\* Variant of the lock that does not wait for the guard's owner.
GetProbeLock_NoWait(w) ==
    /\ run_pc[w] = "lock"
    /\ run_pc' = [run_pc EXCEPT ![w] = "list_all"]
    /\ probe_mutex' = w
    /\ UNCHANGED <<job_no, prev_attached, run_holds, run_retry, run_result, open_probes,
                   barrier, server_vars, validator_vars, unit_vars>>

\* let guard = probe_mutex.lock().unwrap()
GetProbeLock(w) ==
    /\ run_pc[w] = "lock"
    /\ probe_mutex = Free
    /\ run_pc' = [run_pc EXCEPT ![w] = "list_all"]
    /\ probe_mutex' = w
    /\ UNCHANGED <<job_no, prev_attached, run_holds, run_retry, run_result, open_probes,
                   barrier, server_vars, validator_vars, unit_vars>>

\* Probe::list_all().iter().find(serial).ok_or(NotFound)?
GetProbeListAll(w) ==
    /\ run_pc[w] = "list_all"
    /\ Try(w, "open", "ProbeNotFound")

\* .open()?: fails when the probe is owned by an open handle already.
GetProbeOpen(w) ==
    /\ run_pc[w] = "open"
    /\ \E ok \in BOOLEAN :
        IF ok /\ w \notin open_probes
        THEN /\ run_pc' = [run_pc EXCEPT ![w] = "set_speed"]
             /\ run_holds' = [run_holds EXCEPT ![w] = "probe"]
             /\ open_probes' = open_probes \cup {w}
             /\ UNCHANGED <<job_no, prev_attached, run_retry, run_result, probe_mutex,
                            barrier, server_vars, validator_vars, unit_vars>>
        ELSE Return(w, "OpenFailed")

\* probe.set_speed(khz): an error is logged only.
GetProbeSetSpeed(w) ==
    /\ run_pc[w] = "set_speed"
    /\ Goto(w, "unlock")

\* Variant of the return of get_probe after which run tries the normal
\* attach again, however the first attach ended.
GetProbeUnlock_AttachAgain(w) ==
    /\ run_pc[w] = "unlock"
    /\ probe_mutex' = Free
    /\ run_pc' = [run_pc EXCEPT ![w] = "attach"]
    /\ UNCHANGED <<job_no, prev_attached, run_holds, run_retry, run_result, open_probes,
                   barrier, server_vars, validator_vars, unit_vars>>

\* drop(guard); Ok(probe)
GetProbeUnlock(w) ==
    /\ run_pc[w] = "unlock"
    /\ probe_mutex' = Free
    /\ run_pc' = [run_pc EXCEPT ![w] =
                      IF run_retry[w] THEN "attach_under_reset" ELSE "attach"]
    /\ UNCHANGED <<job_no, prev_attached, run_holds, run_retry, run_result, open_probes,
                   barrier, server_vars, validator_vars, unit_vars>>

\* probe.attach(target): the Probe moves into the Session, or is dropped
\* with the error and get_probe is called a second time.
Attach(w) ==
    /\ run_pc[w] = "attach"
    /\ \E ok \in BOOLEAN :
        IF ok
        THEN /\ run_pc' = [run_pc EXCEPT ![w] = "flash"]
             /\ run_holds' = [run_holds EXCEPT ![w] = "session"]
             /\ UNCHANGED <<run_retry, open_probes>>
        ELSE /\ run_pc' = [run_pc EXCEPT ![w] = "lock"]
             /\ run_holds' = [run_holds EXCEPT ![w] = "none"]
             /\ open_probes' = open_probes \ {w}
             /\ run_retry' = [run_retry EXCEPT ![w] = TRUE]
    /\ UNCHANGED <<job_no, prev_attached, run_result, probe_mutex, barrier, server_vars,
                   validator_vars, unit_vars>>

\* probe.attach_under_reset(target).map_err(..)?
AttachUnderReset(w) ==
    /\ run_pc[w] = "attach_under_reset"
    /\ \E ok \in BOOLEAN :
        IF ok
        THEN /\ run_pc' = [run_pc EXCEPT ![w] = "flash"]
             /\ run_holds' = [run_holds EXCEPT ![w] = "session"]
             /\ UNCHANGED <<job_no, prev_attached, run_retry, run_result, probe_mutex,
                            open_probes, barrier, server_vars,
                            validator_vars, unit_vars>>
        ELSE Return(w, "AttachFailed")

\* reset_and_halt, load_elf_data, commit
Flash(w) ==
    /\ run_pc[w] = "flash"
    /\ Try(w, "breakpoint_units", "FlashError")

\* reset_and_halt, available_breakpoint_units()? == 0
BreakpointUnits(w) ==
    /\ run_pc[w] = "breakpoint_units"
    /\ Try(w, "reach_main", "NoBreakpointUnits")

\* Variant of the step to the entrypoint after which run resumes the core
\* without the breakpoint at the hardfault vector.
ReachMain_SkipsArmExit(w) ==
    /\ run_pc[w] = "reach_main"
    /\ Try(w, "resume", "UnableToReachMain")

\* PC, SP and VTOR from RAM, or run to the breakpoint at main
ReachMain(w) ==
    /\ run_pc[w] = "reach_main"
    /\ Try(w, "arm_exit", "UnableToReachMain")

\* the breakpoint at the hardfault vector
ArmExit(w) ==
    /\ run_pc[w] = "arm_exit"
    /\ Try(w, "resume", "ProbeRs")

\* core.run()?
Resume(w) ==
    /\ run_pc[w] = "resume"
    /\ Try(w, "rtt", "ProbeRs")

\* setup_rtt_channel(&mut session)?
SetupRtt(w) ==
    /\ run_pc[w] = "rtt"
    /\ Try(w, "drain", "RttError")

\* The loop reading the RTT channel: it ends when the core halted, when a
\* read fails, or when the timeout has passed.
Drain(w) ==
    /\ run_pc[w] = "drain"
    /\ \E end \in {"halted", "RttError", "Timeout"} :
        IF end = "halted" THEN Goto(w, "classify") ELSE Return(w, end)

\* log_to_string(buffer)?, then the match on core.status()?
Classify(w) ==
    /\ run_pc[w] = "classify"
    /\ \E result \in {"Ok", "DecodeError", "Hardfault", "CoreStatus"} :
        Return(w, result)

RunnerNext ==
    \/ SpawnWorkers
    \/ \E w \in Workers : GetProbeLock(w)
    \/ \E w \in Workers : GetProbeListAll(w)
    \/ \E w \in Workers : GetProbeOpen(w)
    \/ \E w \in Workers : GetProbeSetSpeed(w)
    \/ \E w \in Workers : GetProbeUnlock(w)
    \/ \E w \in Workers : Attach(w)
    \/ \E w \in Workers : AttachUnderReset(w)
    \/ \E w \in Workers : Flash(w)
    \/ \E w \in Workers : BreakpointUnits(w)
    \/ \E w \in Workers : ReachMain(w)
    \/ \E w \in Workers : ArmExit(w)
    \/ \E w \in Workers : Resume(w)
    \/ \E w \in Workers : SetupRtt(w)
    \/ \E w \in Workers : Drain(w)
    \/ \E w \in Workers : Classify(w)

RunnerSpec == Init /\ [][RunnerNext]_vars

----------------------------------------------------------------------------
(* The inventory, common/src/lib.rs Targets.  An Option<Target> is the   *)
(* empty sequence (None) or a sequence of one target (Some).             *)

Target(serial, alias, name, groups) ==
    [probe_serial |-> serial, probe_alias |-> alias, target_name |-> name,
     groups |-> groups]

\* The targets the server was started with.  cli::from_cli fills them with
\* Targets::push, so the probe serials differ; aliases, names and groups
\* may be shared.
available_targets ==
    << Target("s1", "a1", "n1", {"gA"}),
       Target("s2", "a2", "n3", {"gB"}),
       Target("s3", "a3", "n3", {"gB"}) >>

\* iter().find(..).cloned(): the first element that passes the test.
Find(s, Test(_)) ==
    LET hits == {i \in 1..Len(s) : Test(s[i])} IN
    IF hits = {} THEN <<>>
    ELSE << s[CHOOSE i \in hits : \A j \in hits : i <= j] >>

find_by_probe_serial(targets, probe_serial) ==
    Find(targets, LAMBDA t : t.probe_serial = probe_serial)

find_by_target_name(targets, target_name) ==
    Find(targets, LAMBDA t : t.target_name = target_name)

find_by_probe_alias(targets, probe_alias) ==
    Find(targets, LAMBDA t : t.probe_alias = probe_alias)

\* Variant of find_by_group that stops at the first member (find for filter).
find_by_group_first(targets, group) ==
    LET found == Find(targets, LAMBDA t : group \in t.groups) IN
    IF found = <<>> THEN <<>> ELSE << found[1] >>

\* iter().filter(|target| target.groups.contains(group))
find_by_group(targets, group) ==
    SelectSeq(targets, LAMBDA t : group \in t.groups)

\* Variant of UnordEqVec::eq that compares as Vec does, place by place.
Vec_eq(self, other) == self = other

\* Vec::contains
contains(self, v) == \E i \in 1..Len(self) : self[i] = v

\* UnordEqVec::eq:
\* self.iter().all(|v| other.contains(v))
\*     && other.iter().all(|v| self.contains(v))
UnordEqVec_eq(self, other) ==
    /\ \A i \in 1..Len(self) : contains(other, self[i])
    /\ \A i \in 1..Len(other) : contains(self, other[i])

----------------------------------------------------------------------------
(* validate_tasks_coherency, common/src/job.rs.  A RunOn is a variant     *)
(* name with its vector of identifiers; a position string                  *)
(* "{id} @ tasks.{t}.run_on.{r}.{variant}.{k}" is the record of its parts. *)

Variants == {"probe_serials", "probe_aliases", "targets", "groups"}

\* Variant of position that counts the identifier from one.
position_one_based(id, index_t, index_r, variant, index_rr) ==
    [id |-> id, tasks |-> index_t, run_on |-> index_r, variant |-> variant,
     at |-> index_rr + 1]

\* format!("{} @ tasks.{}.run_on.{}.<variant>.{}", id, index_t, index_r, index_rr)
position(id, index_t, index_r, variant, index_rr) ==
    [id |-> id, tasks |-> index_t, run_on |-> index_r, variant |-> variant,
     at |-> index_rr]

\* format!("tasks.{}.run_on", index_t), format!("tasks.{}.binary_b64", index_t)
task_entry(index_t, field) == [tasks |-> index_t, field |-> field]

\* base64::decode: of the strings a task carries here, those whose length
\* is a multiple of four decode; the others fail with InvalidLength.
base64_decode(binary_b64) ==
    IF Len(binary_b64) % 4 = 0
    THEN [ok |-> TRUE, value |-> binary_b64]
    ELSE [ok |-> FALSE, value |-> "InvalidLength"]

\* One arm of the match on run_on for one identifier: the pairs it pushes
\* to position_target_map.  A group pushes one pair per member, or one
\* pair with None when it has no member.
resolve(targets, variant, id, key) ==
    IF variant = "groups"
    THEN LET found == find_by_group(targets, id) IN
         IF Len(found) = 0 THEN << <<key, <<>> >> >>
         ELSE [i \in 1..Len(found) |-> <<key, << found[i] >> >>]
    ELSE LET value ==
                 CASE variant = "probe_serials" ->
                          find_by_probe_serial(targets, id)
                   [] variant = "probe_aliases" ->
                          find_by_probe_alias(targets, id)
                   [] variant = "targets" ->
                          find_by_target_name(targets, id)
         IN  << <<key, value>> >>

RECURSIVE identifiers_loop(_, _, _, _, _)
\* for (index_rr, id) in ids.iter().enumerate(), from the rr-th on
identifiers_loop(targets, run_on, index_t, index_r, rr) ==
    IF rr > Len(run_on.ids) THEN <<>>
    ELSE resolve(targets, run_on.variant, run_on.ids[rr],
                 position(run_on.ids[rr], index_t, index_r, run_on.variant,
                          rr - 1))
         \o identifiers_loop(targets, run_on, index_t, index_r, rr + 1)

RECURSIVE run_on_loop(_, _, _, _)
\* for (index_r, run_on) in task_desc.run_on.iter().enumerate()
run_on_loop(targets, task_desc, index_t, r) ==
    IF r > Len(task_desc.run_on) THEN <<>>
    ELSE identifiers_loop(targets, task_desc.run_on[r], index_t, r - 1, 1)
         \o run_on_loop(targets, task_desc, index_t, r + 1)

\* Variant of at_least_one_target that is set per selector, not per
\* identifier.
at_least_one_target_per_run_on(task_desc) == Len(task_desc.run_on) > 0

\* Variant of at_least_one_target that is never checked.
at_least_one_target_unchecked(task_desc) == TRUE

\* at_least_one_target |= true runs once per identifier of the task.
at_least_one_target(task_desc) ==
    \E r \in 1..Len(task_desc.run_on) : Len(task_desc.run_on[r].ids) > 0

\* The targets a task pushed: the Some values of its pairs, in order.
pushed_targets(pairs) ==
    LET some == SelectSeq(pairs, LAMBDA pair : pair[2] # <<>>) IN
    [i \in 1..Len(some) |-> some[i][2][1]]

RECURSIVE tasks_loop(_, _, _, _)
\* for (index_t, task_desc) in task_descs.iter().enumerate(), from the
\* t-th on; acc holds errors, position_target_map and tasks so far.
tasks_loop(descs, targets, t, acc) ==
    IF t > Len(descs) THEN acc
    ELSE
        LET task_desc == descs[t]
            pairs == run_on_loop(targets, task_desc, t - 1, 1)
            errors1 ==
                IF at_least_one_target(task_desc) THEN acc.errors
                ELSE Append(acc.errors,
                            [kind |-> "NoTargetChosen",
                             entry |-> task_entry(t - 1, "run_on")])
            decoded == base64_decode(task_desc.binary_b64)
        IN  tasks_loop(descs, targets, t + 1,
                [errors |->
                     IF decoded.ok THEN errors1
                     ELSE Append(errors1,
                                 [kind |-> "Base64DecodingFailed",
                                  entry |-> task_entry(t - 1, "binary_b64"),
                                  error_details |-> decoded.value]),
                 position_target_map |-> acc.position_target_map \o pairs,
                 tasks |->
                     IF decoded.ok
                     THEN Append(acc.tasks,
                                 [targets |-> pushed_targets(pairs),
                                  binary |-> decoded.value])
                     ELSE acc.tasks])

\* Variant of not_available that reports the first unresolved pair only.
not_available_first(position_target_map) ==
    LET none == SelectSeq(position_target_map, LAMBDA pair : pair[2] = <<>>)
    IN  IF none = <<>> THEN <<>>
        ELSE << [kind |-> "TargetNotAvailable", entry |-> none[1][1]] >>

\* .filter(|&(_, v)| v.is_none()).map(TargetNotAvailable { entry: k })
not_available(position_target_map) ==
    LET none == SelectSeq(position_target_map, LAMBDA pair : pair[2] = <<>>)
    IN  [i \in 1..Len(none) |->
            [kind |-> "TargetNotAvailable", entry |-> none[i][1]]]

RECURSIVE target_position_map(_, _, _)
\* The HashMap from probe serial to (target, positions), filled from the
\* i-th pair of position_target_map on: entry(serial).or_insert_with(..)
\* .1.push(position).
target_position_map(pairs, i, map) ==
    IF i > Len(pairs) THEN map
    ELSE IF pairs[i][2] = <<>> THEN target_position_map(pairs, i + 1, map)
    ELSE
        LET target == pairs[i][2][1]
            serial == target.probe_serial
            entry == IF serial \in DOMAIN map THEN map[serial]
                     ELSE [target |-> target, positions |-> <<>>]
            pushed == [entry EXCEPT !.positions = Append(@, pairs[i][1])]
        IN  target_position_map(pairs, i + 1,
                [k \in DOMAIN map \cup {serial} |->
                    IF k = serial THEN pushed ELSE map[k]])

\* Variant of not_unique that lets two positions pass.
not_unique_above_two(map) ==
    {serial \in DOMAIN map : Len(map[serial].positions) > 2}

\* Variant of not_unique that lets every entry pass.
not_unique_none(map) == {}

\* The keys whose value passes `if positions.len() > 1`.
not_unique(map) == {serial \in DOMAIN map : Len(map[serial].positions) > 1}

\* The orders in which into_values() may yield the entries of a set of keys.
Orders(keys) ==
    {order \in [1..Cardinality(keys) -> keys] :
        \A i, j \in 1..Cardinality(keys) : order[i] = order[j] => i = j}

\* validate_tasks_coherency(task_descs, available_targets), the HashMap
\* yielding its not-unique entries in `order`.
validate_tasks_coherency(descs, targets, order) ==
    LET acc == tasks_loop(descs, targets, 1,
                   [errors |-> <<>>, position_target_map |-> <<>>,
                    tasks |-> <<>>])
        map == target_position_map(acc.position_target_map, 1, <<>>)
        errors == acc.errors
                  \o not_available(acc.position_target_map)
                  \o [i \in 1..Len(order) |->
                         [kind |-> "TargetIsNotUnique",
                          target |-> map[order[i]].target,
                          entries |-> map[order[i]].positions]]
    IN  IF errors = <<>>
        THEN [called |-> TRUE, ok |-> TRUE, tasks |-> acc.tasks,
              errors |-> <<>>]
        ELSE [called |-> TRUE, ok |-> FALSE, tasks |-> <<>>,
              errors |-> errors]

\* The not-unique keys of the map validate_tasks_coherency builds.
not_unique_keys(descs, targets) ==
    LET acc == tasks_loop(descs, targets, 1,
                   [errors |-> <<>>, position_target_map |-> <<>>,
                    tasks |-> <<>>])
    IN  not_unique(target_position_map(acc.position_target_map, 1, <<>>))

\* #[derive(PartialEq)] of ValidationError: the same variant with equal
\* fields, the entries of TargetIsNotUnique being an UnordEqVec<String>.
ValidationError_eq(a, b) ==
    /\ a.kind = b.kind
    /\ IF a.kind = "TargetIsNotUnique"
       THEN a.target = b.target /\ UnordEqVec_eq(a.entries, b.entries)
       ELSE a = b

\* Variant of ValidationErrors::eq that compares the errors place by place.
ValidationErrors_eq_ordered(self, other) ==
    /\ Len(self) = Len(other)
    /\ \A i \in 1..Len(self) : ValidationError_eq(self[i], other[i])

\* #[derive(PartialEq)] of ValidationErrors: UnordEqVec::eq of the errors,
\* which compares two errors with ValidationError::eq.
ValidationErrors_eq(self, other) ==
    /\ \A i \in 1..Len(self) :
        \E j \in 1..Len(other) : ValidationError_eq(other[j], self[i])
    /\ \A j \in 1..Len(other) :
        \E i \in 1..Len(self) : ValidationError_eq(self[i], other[j])

----------------------------------------------------------------------------
(* The job descriptions validation is applied to *)

\* Tasks of a job description.
MaxTasks == 2

\* Selectors (RunOn values) of a job description, over all its tasks.
MaxSelectors == 2

\* Identifiers of a job description, over all its selectors.
MaxIdentifiers == 2

\* The identifiers a client may name: of each variant one that the
\* inventory knows and one that it does not.
Identifiers(variant) ==
    CASE variant = "probe_serials" -> {"s1", "sX"}
      [] variant = "probe_aliases" -> {"a1", "aX"}
      [] variant = "targets" -> {"n3", "nX"}
      [] variant = "groups" -> {"gB", "gX"}

\* binary_b64 of a task: one that decodes, one that does not.
Binaries == {"bm8=", "ooops"}

RECURSIVE Total(_)
\* The sum of a sequence of numbers.
Total(ns) == IF ns = <<>> THEN 0 ELSE Head(ns) + Total(Tail(ns))

\* The selectors and the identifiers of a job description.
Selectors(descs) == Total([t \in 1..Len(descs) |-> Len(descs[t].run_on)])
Identified(descs) ==
    Total([t \in 1..Len(descs) |->
              Total([r \in 1..Len(descs[t].run_on) |->
                        Len(descs[t].run_on[r].ids)])])

\* A client writes its job description from the first task to the last and
\* may post it at any point: the empty description, then every description
\* within the bounds.
ValidatorInit ==
    /\ ServerInit
    /\ RunnerInit
    /\ UnitIdle
    /\ task_descs = <<>>
    /\ validation = NotValidated
    /\ job_result = NoJobResult
    /\ stored = {}

\* tasks.push(TaskDesc { run_on: vec![], binary_b64 })
AddTask ==
    /\ ~validation.called
    /\ Len(task_descs) < MaxTasks
    /\ \E binary_b64 \in Binaries :
        task_descs' =
            Append(task_descs, [run_on |-> <<>>, binary_b64 |-> binary_b64])
    /\ UNCHANGED <<validation, job_result, stored, server_vars, runner_vars,
                   unit_vars>>

\* run_on.push(RunOn::<variant>(vec![])) on the last task
AddRunOn ==
    /\ ~validation.called
    /\ task_descs # <<>>
    /\ Selectors(task_descs) < MaxSelectors
    /\ \E variant \in Variants :
        task_descs' =
            [task_descs EXCEPT ![Len(task_descs)].run_on =
                Append(@, [variant |-> variant, ids |-> <<>>])]
    /\ UNCHANGED <<validation, job_result, stored, server_vars, runner_vars,
                   unit_vars>>

\* push of an identifier on the last selector of the last task
AddIdentifier ==
    /\ ~validation.called
    /\ task_descs # <<>>
    /\ task_descs[Len(task_descs)].run_on # <<>>
    /\ Identified(task_descs) < MaxIdentifiers
    /\ LET t == Len(task_descs)
           r == Len(task_descs[t].run_on)
       IN  \E id \in Identifiers(task_descs[t].run_on[r].variant) :
               task_descs' =
                   [task_descs EXCEPT ![t].run_on[r].ids = Append(@, id)]
    /\ UNCHANGED <<validation, job_result, stored, server_vars, runner_vars,
                   unit_vars>>

\* Job::from_desc calls validate_tasks_coherency(&desc.tasks, targets).
Validate ==
    /\ ~validation.called
    /\ \E order \in Orders(not_unique_keys(task_descs, available_targets)) :
        validation' =
            validate_tasks_coherency(task_descs, available_targets, order)
    /\ UNCHANGED <<task_descs, job_result, stored, server_vars, runner_vars,
                   unit_vars>>

\* Job::from_desc and Task::from_desc: the validated tasks under fresh
\* identifiers.  Uuid::new_v4() is called for the job first, then for each
\* task in order; the n-th identifier drawn is the number n.
Job_from_desc(tasks) ==
    [id |-> 1,
     tasks |-> [t \in 1..Len(tasks) |->
                   [id |-> t + 1, targets |-> tasks[t].targets,
                    binary |-> tasks[t].binary]]]

\* RunResultDetails::default()
RunResultDetails_default ==
    [kind |-> "Failure", text |-> "Never set, possibly timed out"]

\* What a worker may report for its run: the log or the error of run.
Outcomes ==
    {[kind |-> "Success", text |-> "log"],
     [kind |-> "Failure", text |-> "error"]}

\* Variant of empty_from_job that lists the runs of a task from the last
\* target to the first.
empty_from_job_reversed(job) ==
    [built |-> TRUE,
     id |-> job.id,
     tasks |->
         [t \in 1..Len(job.tasks) |->
             [id |-> job.tasks[t].id,
              runs |->
                  [i \in 1..Len(job.tasks[t].targets) |->
                      [target |->
                           job.tasks[t].targets[
                               Len(job.tasks[t].targets) + 1 - i],
                       result |-> RunResultDetails_default]]]]]

\* JobResult::empty_from_job: one TaskResult per task, one RunResult per
\* target, pushed in the order of the job.
empty_from_job(job) ==
    [built |-> TRUE,
     id |-> job.id,
     tasks |->
         [t \in 1..Len(job.tasks) |->
             [id |-> job.tasks[t].id,
              runs |->
                  [i \in 1..Len(job.tasks[t].targets) |->
                      [target |-> job.tasks[t].targets[i],
                       result |-> RunResultDetails_default]]]]]

\* JobResult::task_mut_by_id: the place of the first task of that id, or
\* None.
task_mut_by_id(result, id) ==
    LET hits == {t \in 1..Len(result.tasks) : id = result.tasks[t].id} IN
    IF hits = {} THEN None ELSE CHOOSE t \in hits : \A u \in hits : t <= u

\* Variant of run_mut_by_probe_serial that takes the first run of the task
\* without comparing the probe serial.
run_mut_first(task, probe_serial) ==
    IF Len(task.runs) = 0 THEN None ELSE 1

\* TaskResult::run_mut_by_probe_serial: the place of the first run on that
\* probe, or None.
run_mut_by_probe_serial(task, probe_serial) ==
    LET hits == {i \in 1..Len(task.runs) :
                    task.runs[i].target.probe_serial = probe_serial}
    IN  IF hits = {} THEN None ELSE CHOOSE i \in hits : \A j \in hits : i <= j

\* The executor builds the empty result of the job it was handed.
EmptyFromJob ==
    /\ validation.ok
    /\ ~job_result.built
    /\ job_result' = empty_from_job(Job_from_desc(validation.tasks))
    /\ UNCHANGED <<task_descs, validation, stored, server_vars, runner_vars,
                   unit_vars>>

\* The executor stores the outcome of a finished worker in the slot it
\* finds by task id and probe serial; workers finish in any order.
StoreOutcome ==
    /\ job_result.built
    /\ LET job == Job_from_desc(validation.tasks) IN
       \E t \in 1..Len(job.tasks) :
           \E i \in 1..Len(job.tasks[t].targets) :
               \E outcome \in Outcomes :
                   LET task_id == job.tasks[t].id
                       serial == job.tasks[t].targets[i].probe_serial
                       task == task_mut_by_id(job_result, task_id)
                       run == IF task = None THEN None
                              ELSE run_mut_by_probe_serial(
                                       job_result.tasks[task], serial)
                   IN  /\ <<task_id, serial>> \notin stored
                       /\ stored' = stored \cup {<<task_id, serial>>}
                       /\ job_result' =
                              IF task = None \/ run = None THEN job_result
                              ELSE [job_result EXCEPT
                                       !.tasks[task].runs[run].result =
                                           outcome]
    /\ UNCHANGED <<task_descs, validation, server_vars, runner_vars,
                   unit_vars>>

ValidatorNext ==
    \/ AddTask
    \/ AddRunOn
    \/ AddIdentifier
    \/ Validate
    \/ EmptyFromJob
    \/ StoreOutcome

ValidatorSpec == ValidatorInit /\ [][ValidatorNext]_vars

----------------------------------------------------------------------------
(* Targets::push, common/src/lib.rs, as cli::from_cli calls it for the    *)
(* probes it finds                                                         *)

\* The targets a caller may push: probes of three serials, each under
\* either of two target names.
Pushable ==
    {Target(serial, "a1", name, {"gA"}) :
        serial \in {"s1", "s2", "s3"}, name \in {"n1", "n3"}}

\* Variant of Targets::push without the test of the probe serial.
Targets_push_unchecked(held, target) ==
    [ok |-> TRUE, targets |-> Append(held, target)]

\* Targets::push: Err when a held target has the probe serial of the new
\* one, else self.targets.push(target) and Ok.
Targets_push(held, target) ==
    IF \E i \in 1..Len(held) : held[i].probe_serial = target.probe_serial
    THEN [ok |-> FALSE, targets |-> held]
    ELSE [ok |-> TRUE, targets |-> Append(held, target)]

\* Targets::new()
TargetsInit ==
    /\ ServerInit
    /\ RunnerInit
    /\ ValidatorIdle
    /\ UnordIdle
    /\ ElfIdle
    /\ DrainIdle
    /\ LegacyIdle
    /\ CaptureIdle
    /\ inventory = <<>>
    /\ last_push = NotPushed

\* targets.push(target)
Push ==
    /\ \E target \in Pushable :
        LET result == Targets_push(inventory, target) IN
        /\ inventory' = result.targets
        /\ last_push' = [called |-> TRUE, target |-> target,
                         ok |-> result.ok]
    /\ UNCHANGED <<server_vars, runner_vars, validator_vars, unord_vars,
                   elf_vars, drain_vars,
                   legacy_vars, capture_vars>>

TargetsNext == Push

TargetsSpec == TargetsInit /\ [][TargetsNext]_vars

----------------------------------------------------------------------------
(* UnordEqVec::eq applied to vectors of every content, common/src/lib.rs *)

\* Elements of a wrapped vector.
MaxLen == 2

\* The values the vectors are made of.
Elements == {"x", "y"}

UnordInit ==
    /\ ServerInit
    /\ RunnerInit
    /\ ValidatorIdle
    /\ InventoryIdle
    /\ ElfIdle
    /\ DrainIdle
    /\ LegacyIdle
    /\ CaptureIdle
    /\ vec_a = <<>>
    /\ vec_b = <<>>
    /\ vec_c = <<>>
    /\ compared = NotCompared

\* Vec::push on one of the three vectors before they are wrapped.
PushA ==
    /\ ~compared.called
    /\ Len(vec_a) < MaxLen
    /\ \E v \in Elements : vec_a' = Append(vec_a, v)
    /\ UNCHANGED <<vec_b, vec_c, compared, server_vars, runner_vars,
                   validator_vars, inventory_vars, elf_vars, drain_vars,
                   legacy_vars, capture_vars>>

PushB ==
    /\ ~compared.called
    /\ Len(vec_b) < MaxLen
    /\ \E v \in Elements : vec_b' = Append(vec_b, v)
    /\ UNCHANGED <<vec_a, vec_c, compared, server_vars, runner_vars,
                   validator_vars, inventory_vars, elf_vars, drain_vars,
                   legacy_vars, capture_vars>>

PushC ==
    /\ ~compared.called
    /\ Len(vec_c) < MaxLen
    /\ \E v \in Elements : vec_c' = Append(vec_c, v)
    /\ UNCHANGED <<vec_a, vec_b, compared, server_vars, runner_vars,
                   validator_vars, inventory_vars, elf_vars, drain_vars,
                   legacy_vars, capture_vars>>

\* UnordEqVec::from(a) == UnordEqVec::from(b), and so on for the other
\* pairs.
Compare ==
    /\ ~compared.called
    /\ compared' =
           [called |-> TRUE,
            aa |-> UnordEqVec_eq(vec_a, vec_a),
            ab |-> UnordEqVec_eq(vec_a, vec_b),
            ba |-> UnordEqVec_eq(vec_b, vec_a),
            bc |-> UnordEqVec_eq(vec_b, vec_c),
            ac |-> UnordEqVec_eq(vec_a, vec_c)]
    /\ UNCHANGED <<vec_a, vec_b, vec_c, server_vars, runner_vars,
                   validator_vars, inventory_vars, elf_vars, drain_vars,
                   legacy_vars, capture_vars>>

UnordNext ==
    \/ PushA
    \/ PushB
    \/ PushC
    \/ Compare

UnordSpec == UnordInit /\ [][UnordNext]_vars

----------------------------------------------------------------------------
(* Runner::new and the part of Runner::run that takes the core to main    *)
(* and arms the exit, server/src/runner.rs.  Addresses are 32-bit words.  *)

\* const THUMB_BIT: u32 = 1
THUMB_BIT == 1

\* from_ram = addr >= 0x2000_0000
RamBase == 536870912

\* address & !THUMB_BIT
ClearThumbBit(address) == address - (address % (2 * THUMB_BIT))

\* Variant of the PC value that run writes on the RAM path: the reset
\* vector with its Thumb bit cleared.
ResetPc_Masked(r) == ClearThumbBit(r.reset)

\* core.write_core_reg(PC, self.vector_table.reset.0)
ResetPc(r) == r.reset

\* The ELF files a runner is built from: the vector table section lies in
\* flash (at 0) or in RAM, 4-byte aligned or not; main and the handlers lie
\* behind it, their addresses carrying the Thumb bit or not.
Elfs ==
    {[main |-> section + main,
      section |-> section,
      vt |-> <<RamBase + 4096, section + reset, 0, section + hardfault>>] :
        section \in {0, RamBase, RamBase + 2},
        main \in {256, 257},
        reset \in {512, 513},
        hardfault \in {768, 769}}

\* Runner::new: main with its Thumb bit cleared, the vector table words as
\* they are; an Err for a vector table section that is not aligned.
Runner_new(file) ==
    IF file.section % 4 # 0
    THEN [ok |-> FALSE, runner |-> NoRunner]
    ELSE [ok |-> TRUE,
          runner |->
              [from_ram |-> file.section >= RamBase,
               main |-> ClearThumbBit(file.main),
               start |-> file.section,
               stack_pointer |-> file.vt[1],
               reset |-> file.vt[2],
               hardfault |-> file.vt[4]]]

ElfInit ==
    /\ ServerInit
    /\ RunnerInit
    /\ ValidatorIdle
    /\ InventoryIdle
    /\ UnordIdle
    /\ DrainIdle
    /\ LegacyIdle
    /\ CaptureIdle
    /\ elf \in Elfs
    /\ runner = NoRunner
    /\ arm_pc = "new"
    /\ core_pc = <<>>
    /\ breakpoints = {}
    /\ patched = {}

\* The worker builds its Runner; run then attaches, flashes and resets the
\* core as RunnerSpec tells.
NewRunner ==
    /\ arm_pc = "new"
    /\ LET new == Runner_new(elf) IN
       /\ runner' = new.runner
       /\ arm_pc' = IF new.ok THEN "reach_main" ELSE "failed"
    /\ UNCHANGED <<elf, core_pc, breakpoints, patched, server_vars,
                   runner_vars, validator_vars, inventory_vars, unord_vars,
                   drain_vars,
                   legacy_vars, capture_vars>>

\* if self.from_ram: write PC, SP and VTOR; any write may fail with
\* UnableToReachMain.
WritePc ==
    /\ arm_pc = "reach_main"
    /\ runner.from_ram
    /\ \E ok \in BOOLEAN :
        IF ok
        THEN /\ core_pc' = << ResetPc(runner) >>
             /\ arm_pc' = "arm_exit"
        ELSE /\ arm_pc' = "failed"
             /\ UNCHANGED core_pc
    /\ UNCHANGED <<elf, runner, breakpoints, patched, server_vars,
                   runner_vars, validator_vars, inventory_vars, unord_vars,
                   drain_vars,
                   legacy_vars, capture_vars>>

\* else: core.set_hw_breakpoint(self.symbols.main.0), core.run()
BreakAtMain ==
    /\ arm_pc = "reach_main"
    /\ ~runner.from_ram
    /\ \E ok \in BOOLEAN :
        IF ok
        THEN /\ breakpoints' = breakpoints \cup {runner.main}
             /\ arm_pc' = "at_main"
        ELSE /\ arm_pc' = "failed"
             /\ UNCHANGED breakpoints
    /\ UNCHANGED <<elf, runner, core_pc, patched, server_vars, runner_vars,
                   validator_vars, inventory_vars, unord_vars, drain_vars,
                   legacy_vars, capture_vars>>

\* wait_for_core_halted, the RTT flag, core.clear_hw_breakpoint(main)
ArrivedAtMain ==
    /\ arm_pc = "at_main"
    /\ \E ok \in BOOLEAN :
        IF ok
        THEN /\ breakpoints' = breakpoints \ {runner.main}
             /\ arm_pc' = "arm_exit"
        ELSE /\ arm_pc' = "failed"
             /\ UNCHANGED breakpoints
    /\ UNCHANGED <<elf, runner, core_pc, patched, server_vars, runner_vars,
                   validator_vars, inventory_vars, unord_vars, drain_vars,
                   legacy_vars, capture_vars>>

\* if self.from_ram: core.write_8(hardfault & !THUMB_BIT, &[0x00, 0xbe])
PatchHardfault ==
    /\ arm_pc = "arm_exit"
    /\ runner.from_ram
    /\ \E ok \in BOOLEAN :
        IF ok
        THEN /\ patched' = patched \cup {ClearThumbBit(runner.hardfault)}
             /\ arm_pc' = "resume"
        ELSE /\ arm_pc' = "failed"
             /\ UNCHANGED patched
    /\ UNCHANGED <<elf, runner, core_pc, breakpoints, server_vars,
                   runner_vars, validator_vars, inventory_vars, unord_vars,
                   drain_vars,
                   legacy_vars, capture_vars>>

\* else: core.set_hw_breakpoint(hardfault & !THUMB_BIT)
BreakAtHardfault ==
    /\ arm_pc = "arm_exit"
    /\ ~runner.from_ram
    /\ \E ok \in BOOLEAN :
        IF ok
        THEN /\ breakpoints' =
                    breakpoints \cup {ClearThumbBit(runner.hardfault)}
             /\ arm_pc' = "resume"
        ELSE /\ arm_pc' = "failed"
             /\ UNCHANGED breakpoints
    /\ UNCHANGED <<elf, runner, core_pc, patched, server_vars, runner_vars,
                   validator_vars, inventory_vars, unord_vars, drain_vars,
                   legacy_vars, capture_vars>>

\* core.run()?
RunCore ==
    /\ arm_pc = "resume"
    /\ \E ok \in BOOLEAN : arm_pc' = IF ok THEN "armed" ELSE "failed"
    /\ UNCHANGED <<elf, runner, core_pc, breakpoints, patched, server_vars,
                   runner_vars, validator_vars, inventory_vars, unord_vars,
                   drain_vars,
                   legacy_vars, capture_vars>>

ElfNext ==
    \/ NewRunner
    \/ WritePc
    \/ BreakAtMain
    \/ ArrivedAtMain
    \/ PatchHardfault
    \/ BreakAtHardfault
    \/ RunCore

ElfSpec == ElfInit /\ [][ElfNext]_vars

----------------------------------------------------------------------------
(* Runner::run from its drain loop to its return, server/src/runner.rs    *)
(* 330-443.  The core and the clock are the environment: the core may     *)
(* change its status and time may pass between any two steps of run.      *)

\* Bytes the firmware writes to its RTT up channel during a run.
MaxBytes == 2

\* The timeout of a run, in ticks of the clock.
MaxTimeout == 1

\* What the firmware may write: a byte of valid text (for defmt: of a
\* well-formed frame) and one that is no valid UTF-8 (a malformed frame).
Bytes == {"a", "xFF"}

\* RttType, the defmt table with an encoding that can recover (rzcobs) or
\* not (raw).
RttTypes == {"PlainText", "DefmtRzcobs", "DefmtRaw"}

\* What core.status() may read, with PSR & 0xff for a breakpoint halt:
\* CoreStatus::Halted(HaltReason::Breakpoint), Halted(another reason),
\* LockedUp, Sleeping, Unknown and Running.
CoreStatuses ==
    {[kind |-> "Breakpoint", isr |-> isr] : isr \in {0, 3}}
    \cup {[kind |-> kind, isr |-> 0] :
            kind \in {"HaltedOther", "LockedUp", "Sleeping", "Unknown",
                      "Running"}}

\* CoreStatus::is_halted
is_halted(status) == status.kind \in {"Breakpoint", "HaltedOther"}

\* log_to_string: plain text is String::from_utf8, an Err when a byte is
\* invalid; a defmt stream skips a malformed frame when its encoding can
\* recover and ends at it, with what was decoded, when not.
log_to_string(type, bytes) ==
    LET malformed == {i \in 1..Len(bytes) : bytes[i] = "xFF"} IN
    CASE type = "PlainText" ->
             IF malformed = {} THEN [ok |-> TRUE, log |-> bytes]
             ELSE [ok |-> FALSE, log |-> <<>>]
      [] type = "DefmtRzcobs" ->
             [ok |-> TRUE, log |-> SelectSeq(bytes, LAMBDA b : b # "xFF")]
      [] type = "DefmtRaw" ->
             [ok |-> TRUE,
              log |-> IF malformed = {} THEN bytes
                      ELSE SubSeq(bytes, 1,
                               (CHOOSE i \in malformed :
                                   \A j \in malformed : i <= j) - 1)]

\* Result::unwrap_or_default on a decoded log
unwrap_or_default(decoded) == IF decoded.ok THEN decoded.log ELSE <<>>

\* Variant of timed_out that never fires.
timed_out_never(elapsed, limit) == FALSE

\* Instant::now() - start > timeout
timed_out(elapsed, limit) == elapsed > limit

\* `_ => {}`: any other status falls through to Ok(log).
other_status(log) == [kind |-> "Ok", log |-> log]

\* The loop is entered: let start = Instant::now()
DrainInit ==
    /\ ServerInit
    /\ RunnerInit
    /\ ValidatorIdle
    /\ InventoryIdle
    /\ UnordIdle
    /\ ElfIdle
    /\ LegacyIdle
    /\ CaptureIdle
    /\ drain_pc = "read"
    /\ core_status = [kind |-> "Running", isr |-> 0]
    /\ halted_seen = FALSE
    /\ classified = NotClassified
    /\ buffer = <<>>
    /\ rtt_type \in RttTypes
    /\ now = 0
    /\ run_timeout \in 0..MaxTimeout
    /\ drain_result = NotReturned

\* run returns: Ok(log) or an Err of that kind with the log it carries.
DrainReturn(kind, log) ==
    /\ drain_pc' = "returned"
    /\ drain_result' = [kind |-> kind, log |-> log]

\* The bytes a channel.read may bring: none, or one more.
ReadInto(bytes) ==
    {bytes} \cup IF Len(bytes) < MaxBytes
                 THEN {Append(bytes, b) : b \in Bytes}
                 ELSE {}

\* let count = channel.read(..)?; buffer.extend_from_slice(..)
DrainRead ==
    /\ drain_pc = "read"
    /\ halted_seen' = FALSE
    /\ \/ /\ DrainReturn("ProbeRsRtt", <<>>)
          /\ UNCHANGED buffer
       \/ /\ buffer' \in ReadInto(buffer)
          /\ drain_pc' = "core_halted"
          /\ UNCHANGED drain_result
    /\ UNCHANGED <<core_status, classified, rtt_type, now, run_timeout,
                   server_vars, runner_vars, validator_vars, inventory_vars,
                   unord_vars, elf_vars,
                   legacy_vars, capture_vars>>

\* if core.core_halted()?
DrainCoreHalted ==
    /\ drain_pc = "core_halted"
    /\ \/ /\ DrainReturn("ProbeRs", <<>>)
          /\ UNCHANGED halted_seen
       \/ /\ halted_seen' = is_halted(core_status)
          /\ drain_pc' = IF is_halted(core_status) THEN "final_read"
                         ELSE "timeout_check"
          /\ UNCHANGED drain_result
    /\ UNCHANGED <<core_status, classified, buffer, rtt_type, now,
                   run_timeout, server_vars, runner_vars, validator_vars,
                   inventory_vars, unord_vars, elf_vars,
                   legacy_vars, capture_vars>>

\* Read from an RTT channel an extra time; break
DrainFinalRead ==
    /\ drain_pc = "final_read"
    /\ \/ /\ DrainReturn("Other", <<>>)
          /\ UNCHANGED buffer
       \/ /\ buffer' \in ReadInto(buffer)
          /\ drain_pc' = "decode"
          /\ UNCHANGED drain_result
    /\ UNCHANGED <<core_status, halted_seen, classified, rtt_type, now,
                   run_timeout, server_vars, runner_vars, validator_vars,
                   inventory_vars, unord_vars, elf_vars,
                   legacy_vars, capture_vars>>

\* if Instant::now() - start > timeout: the timeout error with
\* log_to_string(buffer).unwrap_or_default(); else the next iteration.
DrainTimeoutCheck ==
    /\ drain_pc = "timeout_check"
    /\ IF timed_out(now, run_timeout)
       THEN DrainReturn("Timeout",
                unwrap_or_default(log_to_string(rtt_type, buffer)))
       ELSE /\ drain_pc' = "read"
            /\ UNCHANGED drain_result
    /\ UNCHANGED <<core_status, halted_seen, classified, buffer, rtt_type,
                   now, run_timeout, server_vars, runner_vars,
                   validator_vars, inventory_vars, unord_vars, elf_vars,
                   legacy_vars, capture_vars>>

\* let log = self.log_to_string(buffer)?
DecodeLog ==
    /\ drain_pc = "decode"
    /\ IF log_to_string(rtt_type, buffer).ok
       THEN /\ drain_pc' = "status"
            /\ UNCHANGED drain_result
       ELSE DrainReturn("DecodeError", <<>>)
    /\ UNCHANGED <<core_status, halted_seen, classified, buffer, rtt_type,
                   now, run_timeout, server_vars, runner_vars,
                   validator_vars, inventory_vars, unord_vars, elf_vars,
                   legacy_vars, capture_vars>>

\* match core.status()? { .. }, then Ok(log).  The reads of the status, of
\* PSR and of the fault registers may fail.
MatchStatus ==
    /\ drain_pc = "status"
    /\ LET log == log_to_string(rtt_type, buffer).log IN
       \/ /\ DrainReturn("ProbeRs", <<>>)
          /\ UNCHANGED classified
       \/ /\ classified' = core_status
          /\ drain_pc' = "returned"
          /\ drain_result' =
                 CASE core_status.kind = "Breakpoint" ->
                          IF core_status.isr = 3
                          THEN [kind |-> "Hardfault", log |-> log]
                          ELSE [kind |-> "Ok", log |-> log]
                   [] core_status.kind = "HaltedOther" ->
                          [kind |-> "HaltedUnknownReason", log |-> <<>>]
                   [] core_status.kind = "LockedUp" ->
                          [kind |-> "LockedUp", log |-> log]
                   [] core_status.kind = "Sleeping" ->
                          [kind |-> "Sleeping", log |-> log]
                   [] core_status.kind = "Unknown" ->
                          [kind |-> "Unknown", log |-> log]
                   [] OTHER -> other_status(log)
    /\ UNCHANGED <<core_status, halted_seen, buffer, rtt_type, now,
                   run_timeout, server_vars, runner_vars, validator_vars,
                   inventory_vars, unord_vars, elf_vars,
                   legacy_vars, capture_vars>>

\* Time passes while run is in its loop.  Past MaxTimeout every timeout is
\* exceeded and the clock needs no further reading.
Tick ==
    /\ drain_pc \notin {"unused", "returned"}
    /\ now <= MaxTimeout
    /\ now' = now + 1
    /\ UNCHANGED <<drain_pc, core_status, halted_seen, classified, buffer,
                   rtt_type, run_timeout, drain_result, server_vars,
                   runner_vars, validator_vars, inventory_vars, unord_vars,
                   elf_vars,
                   legacy_vars, capture_vars>>

\* The firmware halts, faults, locks up or sleeps, or the core is reset and
\* runs again, while run is at work.
CoreEvent ==
    /\ drain_pc \notin {"unused", "returned"}
    /\ core_status' \in CoreStatuses \ {core_status}
    /\ UNCHANGED <<drain_pc, halted_seen, classified, buffer, rtt_type, now,
                   run_timeout, drain_result, server_vars, runner_vars,
                   validator_vars, inventory_vars, unord_vars, elf_vars,
                   legacy_vars, capture_vars>>

\* The steps of run.
DrainStep ==
    \/ DrainRead
    \/ DrainCoreHalted
    \/ DrainFinalRead
    \/ DrainTimeoutCheck
    \/ DecodeLog
    \/ MatchStatus

DrainNext ==
    \/ DrainRead
    \/ DrainCoreHalted
    \/ DrainFinalRead
    \/ DrainTimeoutCheck
    \/ DecodeLog
    \/ MatchStatus
    \/ Tick
    \/ CoreEvent

DrainSpec == DrainInit /\ [][DrainNext]_vars

\* run is code of a thread of its own and goes on to its next step; the
\* clock goes on.
DrainSpecFair == DrainSpec /\ WF_vars(DrainStep) /\ WF_vars(Tick)

----------------------------------------------------------------------------
(* Scheduling.  The executor and the collector are tasks of the tokio     *)
(* runtime, which keeps polling a task that is ready; a request handler    *)
(* that began runs on to its reply.  When clients send requests is left    *)
(* open.                                                                   *)

Executor ==
    \/ ExecutorRecv
    \/ ExecutorJobStarted
    \/ ExecutorRun
    \/ ExecutorSend
    \/ ExecutorJobFinished

Collector ==
    \/ CollectorRecv
    \/ CollectorEvict
    \/ CollectorJobCleared
    \/ CollectorPush

SpecFair ==
    /\ Spec
    /\ WF_vars(Executor)
    /\ WF_vars(Collector)
    /\ \A h \in Handlers : WF_vars(PostJobEnqueued(h))

\* C11: every job answered Accepted is eventually started and eventually
\* reported finished: job_started and then job_finished are called with its
\* id, the latter after its JobResult was sent.
C11_AcceptedEventuallyFinished ==
    \A id \in JobIds :
        (id \in accepted) ~> (Contains(started, id) /\ Contains(finished_log, id))

\* C12: a worker is at the RTT attach or in the drain loop only when every
\* other worker of the job has flashed, armed the exit condition and
\* resumed its target: none of them is still at or before core.run().
C12_DrainAfterAllResumed ==
    \A w \in Spawned :
        run_pc[w] \in {"rtt", "drain"} =>
            \A v \in Spawned : run_pc[v] \notin SetupPcs

\* C13: the job's barrier is sized to the number of its runs, and a worker
\* whose run returned a setup failure has signalled it.
C13_FailedSetupSignalsBarrier ==
    /\ barrier.size = Cardinality(Spawned)
    /\ \A w \in Spawned :
        (run_pc[w] = "returned" /\ run_result[w] \in SetupFailures)
            => w \in barrier.arrived

\* C14: at most one worker is between probe_mutex.lock() and drop(guard),
\* where list_all, open and set_speed are called, and it owns the guard.
C14_OneWorkerEnumerates ==
    /\ Cardinality({w \in Workers : run_pc[w] \in EnumerationPcs}) <= 1
    /\ \A w \in Workers : run_pc[w] \in EnumerationPcs => probe_mutex = w

\* A worker opens its probe in the fallback while another waits to lock.
C14_Witness ==
    \E w, v \in Workers :
        /\ run_pc[w] = "open"
        /\ run_retry[w]
        /\ run_pc[v] = "lock"

\* C15: once run has returned, with Ok or with any error, the worker owns
\* neither Probe nor Session and its probe is not open, so a worker that is
\* about to open a probe finds it closed.
C15_ReturnReleasesProbe ==
    /\ \A w \in Workers :
        run_pc[w] \in {"unused", "returned"} =>
            run_holds[w] = "none" /\ w \notin open_probes
    /\ open_probes = {w \in Workers : run_holds[w] # "none"}
    /\ \A w \in Workers : run_pc[w] = "open" => w \notin open_probes

\* A probe the previous job had attached to is attached to by this job,
\* next to a run that failed before it had a handle.
C15_Witness ==
    /\ job_no = 2
    /\ \E w, v \in Workers :
        /\ w \in prev_attached
        /\ run_holds[w] = "session"
        /\ run_pc[v] = "returned"
        /\ run_result[v] = "ProbeNotFound"

----------------------------------------------------------------------------
(* The job description as the claims about validation read it *)

\* The places <<t, r, k>> of the description that hold an identifier.
Places ==
    UNION {UNION {{<<t, r, k>> : k \in 1..Len(task_descs[t].run_on[r].ids)} :
                  r \in 1..Len(task_descs[t].run_on)} :
           t \in 1..Len(task_descs)}

VariantAt(p) == task_descs[p[1]].run_on[p[2]].variant
IdAt(p) == task_descs[p[1]].run_on[p[2]].ids[p[3]]

\* The inventory targets (by index) that carry the identifier at p.
Carriers(p) ==
    {i \in 1..Len(available_targets) :
        LET target == available_targets[i] IN
        CASE VariantAt(p) = "probe_serials" -> target.probe_serial = IdAt(p)
          [] VariantAt(p) = "probe_aliases" -> target.probe_alias = IdAt(p)
          [] VariantAt(p) = "targets" -> target.target_name = IdAt(p)
          [] VariantAt(p) = "groups" -> IdAt(p) \in target.groups}

\* The inventory targets the identifier at p resolves to: every member of
\* a group, the first carrier of a serial, an alias or a name.
ResolvesTo(p) ==
    IF VariantAt(p) = "groups" THEN Carriers(p)
    ELSE {i \in Carriers(p) : \A j \in Carriers(p) : i <= j}

\* The entry path of the place p, counted from zero as in the JSON.
EntryPath(p) ==
    [id |-> IdAt(p), tasks |-> p[1] - 1, run_on |-> p[2] - 1,
     variant |-> VariantAt(p), at |-> p[3] - 1]

\* The places that resolve to the inventory target i.
PathsTo(i) == {p \in Places : i \in ResolvesTo(p)}

Unresolved == {p \in Places : ResolvesTo(p) = {}}
Duplicated == {i \in 1..Len(available_targets) : Cardinality(PathsTo(i)) >= 2}
WithoutIdentifier == {t \in 1..Len(task_descs) : \A p \in Places : p[1] # t}
Undecodable == {t \in 1..Len(task_descs) : task_descs[t].binary_b64 = "ooops"}

\* The errors of one kind, by their place in validation.errors.
ErrorsOf(kind) ==
    {e \in 1..Len(validation.errors) : validation.errors[e].kind = kind}

\* C16: validation succeeds exactly when every task lists an identifier,
\* every identifier resolves, no inventory target is resolved by two entry
\* paths and every binary decodes; the validated tasks then hold exactly
\* the targets their identifiers resolve to, each once.
C16_SucceedsExactlyWhenCoherent ==
    validation.called =>
        /\ validation.ok <=>
            /\ WithoutIdentifier = {}
            /\ Unresolved = {}
            /\ Duplicated = {}
            /\ Undecodable = {}
        /\ validation.ok =>
            /\ Len(validation.tasks) = Len(task_descs)
            /\ \A t \in 1..Len(task_descs) :
                LET chosen == UNION {ResolvesTo(p) : p \in {q \in Places : q[1] = t}}
                    targets == validation.tasks[t].targets
                IN  /\ Range(targets) = {available_targets[i] : i \in chosen}
                    /\ Len(targets) = Cardinality(chosen)

\* One task selects every inventory target once, through selectors of
\* different variants, a group among them, and is accepted.
C16_Witness ==
    /\ validation.ok
    /\ Len(task_descs) = 1
    /\ Len(validation.tasks[1].targets) = Len(available_targets)
    /\ \E p, q \in Places :
        VariantAt(p) = "groups" /\ VariantAt(q) # "groups"

\* C17: validation reports every problem of the description: one error
\* per task without identifier, per binary that does not decode, per
\* unresolved identifier and per target resolved twice; the errors are
\* never empty when validation fails.
C17_EveryProblemIsReported ==
    validation.called =>
        /\ Len(validation.errors) =
               Cardinality(WithoutIdentifier) + Cardinality(Undecodable)
               + Cardinality(Unresolved) + Cardinality(Duplicated)
        /\ ~validation.ok => validation.errors # <<>>
        /\ validation.ok => validation.errors = <<>>

\* Problems of three kinds, in two tasks, two of them of the same kind.
C17_Witness ==
    /\ validation.called
    /\ Cardinality({validation.errors[e].kind :
                       e \in 1..Len(validation.errors)}) >= 3
    /\ Cardinality(Unresolved) >= 2
    /\ \E t, u \in WithoutIdentifier \cup Undecodable : t # u

\* C18: every inventory target resolved by two or more entry paths gets
\* exactly one TargetIsNotUnique error, which carries the target and all
\* the entry paths that resolved to it; a target resolved by one entry
\* path or by none gets no such error, and no such error names anything
\* else.
C18_OneNotUniquePerDuplicate ==
    validation.called =>
        /\ \A i \in 1..Len(available_targets) :
            LET about ==
                    {e \in ErrorsOf("TargetIsNotUnique") :
                        validation.errors[e].target.probe_serial
                            = available_targets[i].probe_serial}
            IN  IF i \in Duplicated
                THEN /\ Cardinality(about) = 1
                     /\ \A e \in about :
                         LET error == validation.errors[e] IN
                         /\ error.target = available_targets[i]
                         /\ Range(error.entries)
                                = {EntryPath(p) : p \in PathsTo(i)}
                         /\ Len(error.entries) = Cardinality(PathsTo(i))
                ELSE about = {}
        /\ \A e \in ErrorsOf("TargetIsNotUnique") :
            validation.errors[e].target \in Range(available_targets)

\* A target named by a selector of one task and reached through a group of
\* another task, both members of that group being reported.
C18_Witness ==
    /\ Cardinality(ErrorsOf("TargetIsNotUnique")) = 1
    /\ \E i \in Duplicated :
        \E p, q \in PathsTo(i) :
            /\ p[1] # q[1]
            /\ VariantAt(p) = "groups"
            /\ VariantAt(q) = "targets"

\* C19: every identifier that resolves to no inventory target, a group
\* without member included, gets exactly one TargetNotAvailable error
\* whose entry is the identifier and its place
\* tasks.{t}.run_on.{r}.<variant>.{k}; an identifier that resolves gets
\* none, and no such error has another entry.
C19_OneNotAvailablePerUnresolved ==
    validation.called =>
        /\ \A p \in Places :
            Cardinality({e \in ErrorsOf("TargetNotAvailable") :
                            validation.errors[e].entry = EntryPath(p)})
                = IF p \in Unresolved THEN 1 ELSE 0
        /\ \A e \in ErrorsOf("TargetNotAvailable") :
            validation.errors[e].entry \in {EntryPath(p) : p \in Unresolved}

\* A known alias in the first selector of a task, which gets no error, and
\* a group without member in its second selector, which gets one.
C19_Witness ==
    /\ validation.called
    /\ \E p \in Places \ Unresolved :
        \E q \in Unresolved :
            /\ VariantAt(p) = "probe_aliases"
            /\ VariantAt(q) = "groups"
            /\ p[1] = q[1]
            /\ p[2] = 1
            /\ q[2] = 2
    /\ Cardinality(ErrorsOf("TargetNotAvailable")) = 1

\* C20: every task whose run_on holds no identifier gets exactly one
\* NoTargetChosen error with entry tasks.{i}.run_on; a task that lists an
\* identifier gets none, and no such error has another entry.
C20_OneNoTargetChosenPerEmptyTask ==
    validation.called =>
        /\ \A t \in 1..Len(task_descs) :
            Cardinality({e \in ErrorsOf("NoTargetChosen") :
                            validation.errors[e].entry
                                = [tasks |-> t - 1, field |-> "run_on"]})
                = IF t \in WithoutIdentifier THEN 1 ELSE 0
        /\ \A e \in ErrorsOf("NoTargetChosen") :
            validation.errors[e].entry \in
                {[tasks |-> t - 1, field |-> "run_on"] :
                    t \in WithoutIdentifier}

\* The first task lists an identifier that does not resolve and gets no
\* NoTargetChosen; the second has a selector, but no identifier, and does.
C20_Witness ==
    /\ Len(task_descs) = 2
    /\ 1 \notin WithoutIdentifier
    /\ \E p \in Unresolved : p[1] = 1
    /\ task_descs[2].run_on # <<>>
    /\ \E e \in ErrorsOf("NoTargetChosen") :
        validation.errors[e].entry = [tasks |-> 1, field |-> "run_on"]

\* The selectors of the description, and the targets of the validated job
\* as (task, place) pairs.
SelectorPlaces ==
    UNION {{<<t, r>> : r \in 1..Len(task_descs[t].run_on)} :
           t \in 1..Len(task_descs)}
JobTargetPlaces ==
    UNION {{<<t, i>> : i \in 1..Len(validation.tasks[t].targets)} :
           t \in 1..Len(validation.tasks)}

\* C21 as stated: in every validated job every selector of every task
\* description resolved to at least one target.
C21_EverySelectorResolved ==
    validation.ok =>
        \A s \in SelectorPlaces :
            \E p \in Places :
                /\ <<p[1], p[2]>> = s
                /\ ResolvesTo(p) # {}

\* C21 amended: in every validated job every identifier of every selector
\* resolved to at least one target and every task has at least one target;
\* a selector with an empty identifier list is refused only when its task
\* has no identifier at all.
C21_EveryIdentifierResolved ==
    /\ validation.ok =>
        /\ \A p \in Places : ResolvesTo(p) # {}
        /\ \A t \in 1..Len(task_descs) :
            /\ \E p \in Places : p[1] = t
            /\ validation.tasks[t].targets # <<>>
    /\ validation.called /\ ~validation.ok =>
        \/ \E t \in 1..Len(task_descs) : \A p \in Places : p[1] # t
        \/ Unresolved # {}
        \/ Duplicated # {}
        \/ Undecodable # {}

\* A validated job whose task description has a selector with an empty
\* identifier list next to a selector that names a target.
C21_Witness ==
    /\ validation.ok
    /\ \E s, u \in SelectorPlaces :
        /\ s[1] = u[1]
        /\ task_descs[s[1]].run_on[s[2]].ids = <<>>
        /\ task_descs[u[1]].run_on[u[2]].ids # <<>>

\* C22: in every job returned by validation the probe serials of all
\* targets of all tasks are pairwise distinct.
C22_JobSerialsDistinct ==
    validation.ok =>
        \A a, b \in JobTargetPlaces :
            a # b =>
                validation.tasks[a[1]].targets[a[2]].probe_serial
                    # validation.tasks[b[1]].targets[b[2]].probe_serial

\* A validated job with two targets that share their name and their group.
C22_Witness ==
    /\ validation.ok
    /\ \E a, b \in JobTargetPlaces :
        LET x == validation.tasks[a[1]].targets[a[2]]
            y == validation.tasks[b[1]].targets[b[2]]
        IN  /\ a # b
            /\ x.target_name = y.target_name
            /\ x.groups \cap y.groups # {}

\* C23: any two validations of the same description against the same
\* inventory both succeed or both fail, and their error collections are
\* equal, in whatever order the hash map yields its entries.
C23_ValidationIsDeterministic ==
    validation.called =>
        \A order \in Orders(not_unique_keys(task_descs, available_targets)) :
            LET again == validate_tasks_coherency(task_descs,
                                                  available_targets, order)
            IN  /\ again.ok = validation.ok
                /\ ValidationErrors_eq(again.errors, validation.errors)
                /\ ValidationErrors_eq(validation.errors, again.errors)

\* A failed validation that another hash-map order would have reported
\* with its errors in another sequence.
C23_Witness ==
    /\ validation.called
    /\ ~validation.ok
    /\ \E order \in Orders(not_unique_keys(task_descs, available_targets)) :
        validate_tasks_coherency(task_descs, available_targets, order).errors
            # validation.errors

\* C24: the JobResult built for a validated job has the job's id, one
\* TaskResult per task, in task order and under the task's id, and in each
\* TaskResult one RunResult per target, in target order; storing run
\* outcomes leaves that so, and a run no outcome was stored for holds the
\* default Failure "Never set, possibly timed out".
C24_ResultMirrorsJob ==
    job_result.built =>
        LET job == Job_from_desc(validation.tasks) IN
        /\ job_result.id = job.id
        /\ Len(job_result.tasks) = Len(job.tasks)
        /\ \A t \in 1..Len(job.tasks) :
            /\ job_result.tasks[t].id = job.tasks[t].id
            /\ Len(job_result.tasks[t].runs) = Len(job.tasks[t].targets)
            /\ \A i \in 1..Len(job.tasks[t].targets) :
                LET run == job_result.tasks[t].runs[i] IN
                /\ run.target = job.tasks[t].targets[i]
                /\ IF <<job.tasks[t].id, run.target.probe_serial>> \in stored
                   THEN run.result \in Outcomes
                   ELSE run.result =
                            [kind |-> "Failure",
                             text |-> "Never set, possibly timed out"]

\* A task on the two targets of a group: the outcome of the second is
\* stored, the first holds the default.
C24_Witness ==
    /\ job_result.built
    /\ \E t \in 1..Len(job_result.tasks) :
        /\ Len(job_result.tasks[t].runs) = 2
        /\ job_result.tasks[t].runs[1].result.text
               = "Never set, possibly timed out"
        /\ job_result.tasks[t].runs[2].result.kind = "Success"

\* C25: every address the runner sets a breakpoint at, writes the
\* breakpoint instruction to or writes to PC has its Thumb bit (bit 0)
\* cleared, for images in RAM and in flash.
C25_ThumbBitCleared ==
    /\ \A address \in breakpoints \cup patched : address % 2 = 0
    /\ \A i \in 1..Len(core_pc) : core_pc[i] % 2 = 0

\* C26: an iteration of the drain loop that did not see the core halted
\* and finds the timeout exceeded ends the run with the timeout failure,
\* which carries the log decoded from the bytes read so far; the run is
\* never reported as timed out in an iteration that saw the core halted;
\* and a run whose core never halts returns, with a failure.
C26_TimeoutEndsTheRun ==
    /\ [][(drain_pc = "timeout_check" /\ drain_pc' # "timeout_check") =>
            /\ ~halted_seen
            /\ IF now > run_timeout
               THEN /\ drain_pc' = "returned"
                    /\ drain_result'.kind = "Timeout"
                    /\ drain_result'.log =
                           unwrap_or_default(log_to_string(rtt_type, buffer))
               ELSE drain_pc' = "read" /\ drain_result' = NotReturned
         ]_drain_vars
    /\ [](drain_result.kind = "Timeout" => ~halted_seen)
    /\ ([](~(core_status.kind \in {"Breakpoint", "HaltedOther"}))
           => <>(drain_pc = "returned" /\ drain_result.kind # "Ok"))

\* The run timed out on a core that is not halted, after more than one
\* iteration, and its failure carries the text read so far.
C26_Witness ==
    /\ drain_result.kind = "Timeout"
    /\ drain_result.log = <<"a", "a">>
    /\ run_timeout = MaxTimeout
    /\ core_status.kind \in {"Running", "Sleeping"}

\* C27: run returns Ok only if the status read after the loop is a halt at
\* a breakpoint with PSR & 0xff other than 3; every other status read
\* there, halted or not, makes run return an error.
C27_SuccessOnlyAtBreakpoint ==
    /\ drain_result.kind = "Ok" =>
           classified.kind = "Breakpoint" /\ classified.isr # 3
    /\ (classified.kind # "none"
        /\ ~(classified.kind = "Breakpoint" /\ classified.isr # 3))
           => drain_result.kind \notin {"Ok", "none"}

\* C28: run returns the decode error only when the halt would have been
\* reported as success; when the core is halted in the hardfault handler,
\* locked up, sleeping or of unknown status, run returns that failure and
\* not the decode error.
C28_DecodeErrorOnlyAfterSuccess ==
    drain_result.kind = "DecodeError" =>
        /\ ~(core_status.kind = "Breakpoint" /\ core_status.isr = 3)
        /\ core_status.kind \notin {"LockedUp", "Sleeping", "Unknown"}

\* C29: from the empty inventory on, after any pushes, the probe serials
\* held are pairwise distinct: a push of a probe serial that is held fails
\* and leaves the inventory as it was, any other push appends its target.
C29_PushKeepsSerialsDistinct ==
    /\ [](\A i, j \in 1..Len(inventory) :
            i # j => inventory[i].probe_serial # inventory[j].probe_serial)
    /\ [][LET target == last_push'.target IN
          IF \E i \in 1..Len(inventory) :
                 inventory[i].probe_serial = target.probe_serial
          THEN ~last_push'.ok /\ inventory' = inventory
          ELSE last_push'.ok /\ inventory' = Append(inventory, target)
        ]_inventory_vars

\* Two targets are held and the push of a third, which has the probe serial
\* of the first and another target name, has failed.
C29_Witness ==
    /\ Len(inventory) = 2
    /\ last_push.called
    /\ ~last_push.ok
    /\ last_push.target.probe_serial = inventory[1].probe_serial
    /\ last_push.target.target_name # inventory[1].target_name

\* How often v occurs in the vector s.
Occurrences(s, v) == Cardinality({i \in 1..Len(s) : s[i] = v})

\* C30: two UnordEqVec values compare equal exactly when one is a
\* reordering of the other, that is when every element occurs as often in
\* the one as in the other; and the comparison is reflexive, symmetric and
\* transitive.
C30_EqualIffPermutation ==
    compared.called =>
        /\ compared.ab <=>
               \A v \in Elements :
                   Occurrences(vec_a, v) = Occurrences(vec_b, v)
        /\ compared.aa
        /\ compared.ab <=> compared.ba
        /\ compared.ab /\ compared.bc => compared.ac

----------------------------------------------------------------------------
(* The life of one job as GET /job/by-id/<id> shows it *)

\* The order in which ServerStatus is meant to show one id.
StatusSuccessor ==
    {<<"InQueue", "Running">>, <<"Running", "Finished">>,
     <<"Finished", "NotFound">>}

\* C31: once POST /job answered Accepted for an id, every step that changes
\* job_status(id) moves it one place forward along InQueue, Running,
\* Finished, NotFound: never backwards, never to NotFound from a status
\* other than Finished, never to Running or InQueue after Finished.
C31_StatusOnlyAdvances ==
    [][\A id \in accepted :
         LET old == job_status(server_status, id)
             new == job_status(server_status', id)
         IN  old # new => <<old, new>> \in StatusSuccessor]_vars

----------------------------------------------------------------------------
(* The slot of a run in the JobResult *)

\* The runs (task place, target place) of the validated job.
RunsOf(job) ==
    {<<t, i>> \in (1..Len(job.tasks)) \X (1..MaxSelectors * 3) :
        i <= Len(job.tasks[t].targets)}

\* C32: for every run (task, target) of the validated job the lookup
\* task_mut_by_id(task.id), then run_mut_by_probe_serial(probe_serial), finds
\* a slot and it is the slot at the place of that task and of that target;
\* so two runs never share a slot, and a slot holds an outcome exactly when
\* its own run was stored, in whatever order the workers finished.
C32_LookupFindsOwnSlot ==
    job_result.built =>
        LET job == Job_from_desc(validation.tasks) IN
        \A r \in RunsOf(job) :
            LET t == r[1]
                i == r[2]
                task_id == job.tasks[t].id
                serial == job.tasks[t].targets[i].probe_serial
            IN  /\ task_mut_by_id(job_result, task_id) = t
                /\ run_mut_by_probe_serial(job_result.tasks[t], serial) = i
                /\ job_result.tasks[t].runs[i].result # RunResultDetails_default
                       <=> <<task_id, serial>> \in stored

\* Both runs of a task on two targets are stored, and a run of another task.
C32_Witness ==
    /\ job_result.built
    /\ \E t \in 1..Len(job_result.tasks) :
           /\ Len(job_result.tasks[t].runs) >= 2
           /\ \A i \in 1..Len(job_result.tasks[t].runs) :
                  job_result.tasks[t].runs[i].result # RunResultDetails_default
    /\ Len(job_result.tasks) = 2
    /\ Cardinality(stored) >= 3

----------------------------------------------------------------------------
(* The attach fallback of Runner::run *)

\* Positions of the second call of get_probe, made after attach failed.
ReclaimPcs == {"lock"} \cup EnumerationPcs

\* C34: a failed normal attach is followed by exactly one attach under
\* reset, made with the probe that get_probe claimed again under the probe
\* mutex; when the second claim or the attach under reset fails the run
\* returns a failure without reaching the flash; after a successful normal
\* attach the run goes to the flash and attach under reset is never tried.
C34_AttachFallsBackOnce ==
    [][\A w \in Workers :
         LET old == run_pc[w]
             new == run_pc'[w]
         IN  /\ old = "attach" /\ new # old =>
                    \/ new = "flash" /\ ~run_retry'[w]
                              /\ run_holds'[w] = "session"
                    \/ new = "lock" /\ ~run_retry[w] /\ run_retry'[w]
             /\ new = "attach" /\ new # old => ~run_retry[w]
             /\ new = "attach_under_reset" /\ new # old =>
                    /\ run_retry[w]
                    /\ old = "unlock"
                    /\ probe_mutex = w
                    /\ run_holds[w] = "probe"
             /\ old = "attach_under_reset" /\ new # old =>
                    \/ new = "flash" /\ run_holds'[w] = "session"
                    \/ new = "returned" /\ run_result'[w] = "AttachFailed"
             /\ run_retry[w] /\ old \in ReclaimPcs /\ new # old =>
                    \/ new \in ReclaimPcs \cup {"attach_under_reset"}
                    \/ new = "returned" /\ run_result'[w] \in NoSession
             /\ new = "flash" /\ new # old =>
                    old \in {"attach", "attach_under_reset"}]_vars

\* One worker flashes after the fallback attached; another returned because
\* the fallback failed too.
C34_Witness ==
    \E w, v \in Workers :
        /\ run_pc[w] = "flash" /\ run_retry[w]
        /\ run_pc[v] = "returned" /\ run_retry[v]
        /\ run_result[v] = "AttachFailed"

----------------------------------------------------------------------------
(* The order of the steps of Runner::run between attach and core.run() *)

\* The steps on the device in the order of the code, each with the error
\* its `?` returns: flash (reset_and_halt, load, commit), the second
\* reset_and_halt with the breakpoint unit check, the entrypoint, the
\* breakpoint at the hardfault vector, core.run().
DeviceSteps ==
    << [pc |-> "flash",            err |-> "FlashError"],
       [pc |-> "breakpoint_units", err |-> "NoBreakpointUnits"],
       [pc |-> "reach_main",       err |-> "UnableToReachMain"],
       [pc |-> "arm_exit",         err |-> "ProbeRs"],
       [pc |-> "resume",           err |-> "ProbeRs"],
       [pc |-> "rtt",              err |-> "RttError"] >>

\* C35: the steps of run are taken strictly in order: a worker enters a step
\* only from the step before it, which succeeded, so a worker past the final
\* core.run() has committed the flash, reset and halted a second time, found
\* a breakpoint unit, reached the entrypoint and armed the hardfault
\* breakpoint, in that order; a step that fails makes run return that
\* step's error and no later step is entered.
C35_StepsInOrder ==
    [][\A w \in Workers :
         LET old == run_pc[w]
             new == run_pc'[w]
         IN  \A k \in 1..Len(DeviceSteps) :
               /\ k > 1 /\ new = DeviceSteps[k].pc /\ new # old =>
                      old = DeviceSteps[k - 1].pc
               /\ k < Len(DeviceSteps) /\ old = DeviceSteps[k].pc
                  /\ new # old =>
                      \/ new = DeviceSteps[k + 1].pc
                           /\ run_result'[w] = "none"
                      \/ new = "returned"
                           /\ run_result'[w] = DeviceSteps[k].err]_vars

\* One worker is past core.run(); another returned at the breakpoint unit
\* check.
C35_Witness ==
    \E w, v \in Workers :
        /\ run_pc[w] = "rtt"
        /\ run_pc[v] = "returned"
        /\ run_result[v] = "NoBreakpointUnits"

----------------------------------------------------------------------------
(* The scope of the probe mutex guard *)

\* C36: the probe mutex is locked only by a worker that is inside get_probe
\* between lock() and drop(guard): get_probe releases it on every way out
\* (probe opened, probe not found, open failed), and no worker holds it
\* while it attaches, flashes, drains or after run returned.
C36_MutexHeldOnlyInGetProbe ==
    /\ probe_mutex \in Workers \cup {Free}
    /\ \A w \in Workers : probe_mutex = w => run_pc[w] \in EnumerationPcs

\* One worker failed to find its probe and another failed to open it; both
\* returned, and a third party could lock the mutex again.
C36_Witness ==
    /\ probe_mutex = Free
    /\ \E w, v \in Workers :
        /\ run_pc[w] = "returned" /\ run_result[w] = "ProbeNotFound"
        /\ run_pc[v] = "returned" /\ run_result[v] = "OpenFailed"

----------------------------------------------------------------------------
(* The run queue, the workers and the cleanup of server/src/app.rs.  The  *)
(* RunQueue lives behind one std::sync::Mutex; register_job, the search   *)
(* of a worker, the store of its result and one cleanup pass each run     *)
(* with the guard held, so each is one step.  run_test runs without it.   *)

\* Jobs registered in one run of the model.
MaxRegistered == 3

\* The ids random() draws from.
MaxIds == 3

\* max_target_timeout of the configuration, in seconds.
MaxTimeoutSecs == 2

Ids == 1..MaxIds


\* The targets of the configuration: two probes with the same CPU type.
configured_targets ==
    << [cpu_type |-> "CortexM4", probe_serial |-> "s1",
        probe_alias |-> "a1", target_name |-> "n1"],
       [cpu_type |-> "CortexM4", probe_serial |-> "s2",
        probe_alias |-> "a2", target_name |-> "n2"] >>

\* Backend::run spawns one Worker per target.
QueueWorkers == 1..Len(configured_targets)

\* The RunJob values a client sends: for one probe with a timeout below
\* max_target_timeout, for both targets by CPU type with a timeout above
\* it, for an empty alias, for a target name the configuration lacks.
RunJobs ==
    {[run_on |-> [kind |-> "ProbeSerial", value |-> "s1"],
      timeout_secs |-> 1],
     [run_on |-> [kind |-> "Core", value |-> "CortexM4"],
      timeout_secs |-> MaxTimeoutSecs + 1],
     [run_on |-> [kind |-> "ProbeAlias", value |-> ""],
      timeout_secs |-> 1],
     [run_on |-> [kind |-> "Target", value |-> "n9"],
      timeout_secs |-> 1]}

\* RunOn::is_valid
is_valid(run_on) == run_on.kind = "Core" \/ run_on.value # ""

\* The field of a target that a RunOn of that kind is compared with.
selected_field(tgt, kind) ==
    CASE kind = "ProbeSerial" -> tgt.probe_serial
      [] kind = "ProbeAlias" -> tgt.probe_alias
      [] kind = "Target" -> tgt.target_name
      [] kind = "Core" -> tgt.cpu_type

\* register_job: is_valid() && targets.get_probe / get_probe_alias /
\* get_target / get_core (..).is_some()
available(run_on) ==
    /\ is_valid(run_on)
    /\ \E i \in 1..Len(configured_targets) :
           selected_field(configured_targets[i], run_on.kind) = run_on.value

\* Worker::run: is_valid() && the RunOn names this worker's target.
for_us(tgt, run_on) ==
    /\ is_valid(run_on)
    /\ selected_field(tgt, run_on.kind) = run_on.value

InQueueStatuses == {"WaitingInQueue", "Running"}

FinishedStatuses == {"Done", "Error"}

\* RunQueue::jobs_in_queue
jobs_in_queue(q) ==
    Cardinality({i \in 1..Len(q) : q[i].status \in InQueueStatuses})

\* RunQueue::get_job / get_job_mut: the place of the first job of that id,
\* or None.
get_job(q, id) ==
    LET hits == {i \in 1..Len(q) : q[i].id = id} IN
    IF hits = {} THEN None ELSE CHOOSE i \in hits : \A j \in hits : i <= j

\* The entry register_job pushes.  seq, taken_by, executed and passes are
\* history: the number of the registration, the workers that took the job,
\* the calls of run_test for it, the cleanup passes that saw it finished.
new_job(id, test, seq) ==
    [id |-> id, status |-> "WaitingInQueue", run_on |-> test.run_on,
     timeout_secs |-> test.timeout_secs, binary_b64 |-> "elf",
     seq |-> seq, taken_by |-> {}, executed |-> 0, passes |-> 0]

\* Variant of register_job without the test of the queue length.
register_job_unbounded(q, test, candidate, seq) ==
    IF available(test.run_on)
    THEN [ok |-> TRUE, id |-> candidate,
          jobs |-> Append(q, new_job(candidate, test, seq))]
    ELSE [ok |-> FALSE, id |-> None, jobs |-> q]

\* RunQueue::register_job with `candidate` the id random() drew last: Err
\* when the queue is full or no target is selected; a candidate in use is
\* drawn again (retry), else the job is pushed as WaitingInQueue.
register_job(q, test, candidate, seq) ==
    IF jobs_in_queue(q) >= max_jobs_in_queue
    THEN [ok |-> FALSE, id |-> None, jobs |-> q]
    ELSE IF available(test.run_on)
    THEN IF get_job(q, candidate) # None
         THEN [ok |-> FALSE, id |-> candidate, jobs |-> q]
         ELSE [ok |-> TRUE, id |-> candidate,
               jobs |-> Append(q, new_job(candidate, test, seq))]
    ELSE [ok |-> FALSE, id |-> None, jobs |-> q]

\* Variant of the search of Worker::run that does not look at the status.
find_job_any_status(q, tgt) ==
    LET hits == {i \in 1..Len(q) : for_us(tgt, q[i].run_on)} IN
    IF hits = {} THEN None ELSE CHOOSE i \in hits : \A j \in hits : i <= j

\* Worker::run, the search: the first job that is WaitingInQueue and for
\* this worker's target, or None.
find_job(q, tgt) ==
    LET hits == {i \in 1..Len(q) :
                    /\ q[i].status = "WaitingInQueue"
                    /\ for_us(tgt, q[i].run_on)}
    IN  IF hits = {} THEN None ELSE CHOOSE i \in hits : \A j \in hits : i <= j

\* Variant of the timeout of run_test that takes the job's timeout as it is.
run_timeout_unclamped(timeout_secs, max) == timeout_secs

\* Worker::run_test: timeout_secs.min(max_target_timeout).into(), u32 to
\* the u64 of Duration::from_secs.
run_timeout_secs(timeout_secs, max) ==
    IF timeout_secs <= max THEN timeout_secs ELSE max

\* A Worker between two jobs.
Searching == [pc |-> "find", id |-> None, seq |-> 0, timeout_secs |-> 0,
              deadline |-> None, result |-> "none"]

\* Cleanup::run, first loop: jobs.remove(position of id) for every id of
\* to_cleanup that is still there.
RECURSIVE remove_marked(_, _)
remove_marked(q, ids) ==
    IF ids = <<>> THEN q
    ELSE LET idx == get_job(q, Head(ids)) IN
         remove_marked(
             IF idx = None THEN q
             ELSE SubSeq(q, 1, idx - 1) \o SubSeq(q, idx + 1, Len(q)),
             Tail(ids))

\* Variant of the second loop of Cleanup::run that marks every job.
mark_finished_all(q) == [i \in 1..Len(q) |-> q[i].id]

\* Cleanup::run, second loop: the ids of the Done and Error jobs, in the
\* order of the queue.
mark_finished(q) ==
    LET done == SelectSeq(q, LAMBDA j : j.status \in FinishedStatuses) IN
    [i \in 1..Len(done) |-> done[i].id]

LegacyInit ==
    /\ ServerInit
    /\ RunnerInit
    /\ ValidatorIdle
    /\ InventoryIdle
    /\ UnordIdle
    /\ ElfIdle
    /\ DrainIdle
    /\ CaptureIdle
    /\ run_queue = <<>>
    /\ worker_state = [w \in QueueWorkers |-> Searching]
    /\ to_cleanup = <<>>
    /\ max_target_timeout = MaxTimeoutSecs
    /\ register_reply = NoReply
    /\ registered = 0
    /\ removed = {}

\* A request registers a job: register_job under the guard.  The loop over
\* random() is the choice of a candidate until one is free.  At most
\* `limit` jobs are pushed in a run of the model.
RegisterJob(limit) ==
    /\ registered < limit
    /\ \E test \in RunJobs, candidate \in Ids :
        LET r == register_job(run_queue, test, candidate, registered + 1)
        IN  /\ r.ok \/ r.id = None
            /\ run_queue' = r.jobs
            /\ register_reply' = [called |-> TRUE, ok |-> r.ok, id |-> r.id]
            /\ registered' = IF r.ok THEN registered + 1 ELSE registered
    /\ UNCHANGED <<worker_state, to_cleanup, max_target_timeout, removed,
                   server_vars, runner_vars, validator_vars, inventory_vars,
                   unord_vars, elf_vars, drain_vars, capture_vars>>

\* Worker::run, the block under the guard: the job found becomes Running
\* and the worker keeps its id and a clone of its RunJob.  A worker that
\* finds none sleeps a second and searches again.
WorkerFind(w) ==
    /\ worker_state[w].pc = "find"
    /\ LET idx == find_job(run_queue, configured_targets[w]) IN
        /\ idx # None
        /\ run_queue' = [run_queue EXCEPT
               ![idx].status = "Running",
               ![idx].taken_by = @ \cup {w}]
        /\ worker_state' = [worker_state EXCEPT ![w] =
               [pc |-> "run_test", id |-> run_queue[idx].id,
                seq |-> run_queue[idx].seq,
                timeout_secs |-> run_queue[idx].timeout_secs,
                deadline |-> None, result |-> "none"]]
    /\ UNCHANGED <<to_cleanup, max_target_timeout, register_reply,
                   registered, removed, server_vars, runner_vars,
                   validator_vars, inventory_vars, unord_vars, elf_vars,
                   drain_vars, capture_vars>>

\* spawn_blocking(run_test): base64::decode and Runner::new may fail before
\* runner.run is called with the timeout; run returns the log or an error.
WorkerRunTest(w) ==
    /\ worker_state[w].pc = "run_test"
    /\ \E reached \in BOOLEAN, result \in FinishedStatuses :
        /\ ~reached => result = "Error"
        /\ worker_state' = [worker_state EXCEPT ![w] =
               [@ EXCEPT !.pc = "finish",
                         !.deadline =
                             IF reached
                             THEN run_timeout_secs(
                                      worker_state[w].timeout_secs,
                                      max_target_timeout)
                             ELSE None,
                         !.result = result]]
    /\ run_queue' =
           [i \in 1..Len(run_queue) |->
               IF run_queue[i].seq = worker_state[w].seq
               THEN [run_queue[i] EXCEPT !.executed = @ + 1]
               ELSE run_queue[i]]
    /\ UNCHANGED <<to_cleanup, max_target_timeout, register_reply,
                   registered, removed, server_vars, runner_vars,
                   validator_vars, inventory_vars, unord_vars, elf_vars,
                   drain_vars, capture_vars>>

\* Worker::run, the second block under the guard: get_job_mut(id), the
\* status becomes Done or Error and the binary is emptied.
WorkerFinish(w) ==
    /\ worker_state[w].pc = "finish"
    /\ LET idx == get_job(run_queue, worker_state[w].id) IN
        run_queue' =
            IF idx = None THEN run_queue
            ELSE [run_queue EXCEPT
                     ![idx].status = worker_state[w].result,
                     ![idx].binary_b64 = ""]
    /\ worker_state' = [worker_state EXCEPT ![w] = Searching]
    /\ UNCHANGED <<to_cleanup, max_target_timeout, register_reply,
                   registered, removed, server_vars, runner_vars,
                   validator_vars, inventory_vars, unord_vars, elf_vars,
                   drain_vars, capture_vars>>

\* One pass of Cleanup::run, a minute after the last: the jobs marked on
\* the last pass are removed, then the jobs that are Done or Error now are
\* marked for the next pass.
CleanupPass ==
    LET kept == remove_marked(run_queue, to_cleanup)
        gone == {[seq |-> run_queue[i].seq, status |-> run_queue[i].status,
                  passes |-> run_queue[i].passes] :
                    i \in {j \in 1..Len(run_queue) :
                              \A k \in 1..Len(kept) :
                                  kept[k].seq # run_queue[j].seq}}
        marked == mark_finished(kept)
    IN  /\ to_cleanup' = marked
        /\ run_queue' =
               [i \in 1..Len(kept) |->
                   IF \E k \in 1..Len(marked) : marked[k] = kept[i].id
                   THEN [kept[i] EXCEPT !.passes = @ + 1]
                   ELSE kept[i]]
        /\ removed' = removed \cup gone
        /\ run_queue' # run_queue \/ to_cleanup' # to_cleanup
        /\ UNCHANGED <<worker_state, max_target_timeout, register_reply,
                       registered, server_vars, runner_vars, validator_vars,
                       inventory_vars, unord_vars, elf_vars, drain_vars,
                       capture_vars>>

LegacyNext ==
    \/ RegisterJob(MaxRegistered)
    \/ \E w \in QueueWorkers : WorkerFind(w)
    \/ \E w \in QueueWorkers : WorkerRunTest(w)
    \/ \E w \in QueueWorkers : WorkerFinish(w)
    \/ CleanupPass

LegacySpec == LegacyInit /\ [][LegacyNext]_vars

\* The same tasks with one job fewer pushed.
LegacyFairNext ==
    \/ RegisterJob(MaxRegistered - 1)
    \/ \E w \in QueueWorkers : WorkerFind(w)
    \/ \E w \in QueueWorkers : WorkerRunTest(w)
    \/ \E w \in QueueWorkers : WorkerFinish(w)
    \/ CleanupPass

\* The cleanup task wakes up every minute, for ever.
LegacySpecFair ==
    LegacyInit /\ [][LegacyFairNext]_vars /\ WF_vars(CleanupPass)

----------------------------------------------------------------------------
(* Claims on the run queue of app.rs *)

\* The workers that called runner.run for the job they hold.
Ran == {w \in QueueWorkers : worker_state[w].deadline # None}

\* C33: the timeout handed to runner.run is the smaller of the job's
\* timeout_secs and max_target_timeout: it never exceeds max_target_timeout,
\* and a job timeout that is not above the maximum is handed on unchanged; a
\* run that returned a log was given such a timeout.
C33_DeadlineIsMinimum ==
    /\ \A w \in Ran :
        LET deadline == worker_state[w].deadline
            wanted == worker_state[w].timeout_secs
        IN  /\ deadline <= max_target_timeout
            /\ wanted <= max_target_timeout => deadline = wanted
            /\ wanted > max_target_timeout => deadline = max_target_timeout
    /\ \A w \in QueueWorkers :
        worker_state[w].result = "Done" => w \in Ran

\* One worker ran a job with a timeout below the maximum, the other a job
\* with a timeout above it.
C33_Witness ==
    \E w, v \in Ran :
        /\ worker_state[w].timeout_secs < max_target_timeout
        /\ worker_state[v].timeout_secs > max_target_timeout

\* The RunOn names the target: its serial, its alias, its name or its CPU.
Names(run_on, tgt) ==
    \/ run_on.kind = "ProbeSerial" /\ run_on.value = tgt.probe_serial
    \/ run_on.kind = "ProbeAlias" /\ run_on.value = tgt.probe_alias
    \/ run_on.kind = "Target" /\ run_on.value = tgt.target_name
    \/ run_on.kind = "Core" /\ run_on.value = tgt.cpu_type

\* The status of the job registered as number n, while the queue holds it.
StatusOf(q, n) ==
    IF \E i \in 1..Len(q) : q[i].seq = n
    THEN q[CHOOSE i \in 1..Len(q) : q[i].seq = n].status
    ELSE "absent"

\* The moves of a status that JobStatus documents.
StatusMoves ==
    {<<"WaitingInQueue", "Running">>, <<"Running", "Done">>,
     <<"Running", "Error">>}

\* C37: every job of the run queue is taken (set Running) by at most one
\* worker and run_test is called for it at most once, also when both
\* workers' targets are named by its run_on; the worker that took it has a
\* target its run_on names; two workers never hold the same job; and while
\* the queue holds a job its status only moves WaitingInQueue to Running
\* and Running to Done or Error.
C37_TakenByOneWorker ==
    /\ [](/\ \A i \in 1..Len(run_queue) :
                LET held == run_queue[i] IN
                /\ Cardinality(held.taken_by) <= 1
                /\ held.executed <= 1
                /\ held.status = "WaitingInQueue" <=> held.taken_by = {}
                /\ \A w \in held.taken_by :
                       Names(held.run_on, configured_targets[w])
          /\ \A w, v \in QueueWorkers :
                /\ w # v
                /\ worker_state[w].pc # "find"
                /\ worker_state[v].pc # "find"
                => worker_state[w].seq # worker_state[v].seq)
    /\ [][\A n \in 1..MaxRegistered :
            LET old == StatusOf(run_queue, n)
                new == StatusOf(run_queue', n)
            IN  old # new /\ old # "absent" /\ new # "absent" =>
                    <<old, new>> \in StatusMoves]_vars

\* Two jobs for the CPU type of both targets: worker 1 took and finished
\* one, worker 2 runs the other.
C37_Witness ==
    \E i, k \in 1..Len(run_queue) :
        /\ run_queue[i].run_on.kind = "Core"
        /\ run_queue[k].run_on.kind = "Core"
        /\ run_queue[i].taken_by = {1}
        /\ run_queue[k].taken_by = {2}
        /\ run_queue[i].status = "Done"
        /\ run_queue[k].status = "Running"
        /\ run_queue[k].executed = 1

\* The jobs of the queue that count against max_jobs_in_queue.
Unfinished(q) ==
    {i \in 1..Len(q) : q[i].status = "WaitingInQueue"
                           \/ q[i].status = "Running"}

\* C38: the run queue never holds more than max_jobs_in_queue jobs that are
\* WaitingInQueue or Running, whatever the number of Done and Error jobs it
\* holds, and the ids of the jobs it holds are pairwise distinct; a call of
\* register_job pushes a job only when fewer than max_jobs_in_queue jobs
\* were unfinished and its run_on names a configured target, and a call
\* that answers Err leaves the queue as it was.
C38_AdmissionBounded ==
    /\ [](/\ Cardinality(Unfinished(run_queue)) <= max_jobs_in_queue
          /\ \A i, k \in 1..Len(run_queue) :
                 i # k => run_queue[i].id # run_queue[k].id)
    /\ [][/\ registered' # registered =>
                /\ Cardinality(Unfinished(run_queue)) < max_jobs_in_queue
                /\ Len(run_queue') = Len(run_queue) + 1
                /\ SubSeq(run_queue', 1, Len(run_queue)) = run_queue
                /\ LET pushed_job == run_queue'[Len(run_queue')] IN
                    /\ pushed_job.status = "WaitingInQueue"
                    /\ \E i \in 1..Len(configured_targets) :
                           Names(pushed_job.run_on, configured_targets[i])
                    /\ register_reply' =
                           [called |-> TRUE, ok |-> TRUE,
                            id |-> pushed_job.id]
          /\ register_reply' # register_reply /\ ~register_reply'.ok =>
                run_queue' = run_queue]_vars

\* A job is registered while the queue holds a finished job and one
\* unfinished job: three jobs held, two of them unfinished.
C38_Witness ==
    /\ Len(run_queue) = 3
    /\ Cardinality(Unfinished(run_queue)) = max_jobs_in_queue
    /\ register_reply.ok
    /\ run_queue[3].id = register_reply.id
    /\ run_queue[1].status \in FinishedStatuses


\* The jobs of the queue that leave it in the step.
Leaving ==
    {i \in 1..Len(run_queue) : StatusOf(run_queue', run_queue[i].seq) = "absent"}

\* C39: the cleanup removes a job only when the job is Done or Error, was
\* so on the pass before and was marked on that pass, so a job that is
\* WaitingInQueue or Running is never removed and a finished job stays in
\* the queue for one whole interval between two passes; and every job that
\* is Done or Error is removed later on.
C39_CleanupAfterOnePass ==
    /\ [](/\ \A r \in removed :
                 r.status \in FinishedStatuses /\ r.passes = 1
          /\ \A i \in 1..Len(run_queue) :
                 /\ run_queue[i].passes <= 1
                 /\ run_queue[i].passes = 1 =>
                        /\ run_queue[i].status \in FinishedStatuses
                        /\ Contains(to_cleanup, run_queue[i].id))
    /\ [][\A i \in Leaving :
            /\ run_queue[i].status \in FinishedStatuses
            /\ run_queue[i].passes = 1
            /\ Contains(to_cleanup, run_queue[i].id)]_vars
    /\ \A n \in 1..MaxRegistered :
           StatusOf(run_queue, n) \in FinishedStatuses
               ~> StatusOf(run_queue, n) = "absent"

\* A finished job was removed, two passes after it finished, while a job
\* that was Running on both passes stays in the queue.
C39_Witness ==
    /\ \E r \in removed : r.seq = 2
    /\ \E k \in 1..Len(run_queue) :
        /\ run_queue[k].seq = 1
        /\ run_queue[k].status = "Running"

----------------------------------------------------------------------------
(* Logic-analyzer captures, sigrok-rs/src/lib.rs: start_capture spawns    *)
(* sigrok-cli and wraps the std::process::Child in a                      *)
(* KillOnDropProcessHandle; the child may exit by itself at any time.     *)

\* The analyzers LogicAnalyzer::all() found.
MaxAnalyzers == 2

Analyzers == 1..MaxAnalyzers

\* No child was spawned.  A child is running, exited (a zombie until it is
\* waited on) or reaped; killed tells that SIGKILL ended it.
NoChild == [state |-> "none", killed |-> FALSE]

\* start_capture was not called.
NoCapture == [pc |-> "idle", handle |-> "none"]

\* Child::try_wait: reaps a child that exited and returns its status, None
\* for a child that runs.
try_wait(c) ==
    IF c.state = "running"
    THEN [exited |-> FALSE, child |-> c]
    ELSE [exited |-> TRUE, child |-> [c EXCEPT !.state = "reaped"]]

\* Child::kill: SIGKILL; nothing happens to a child that exited already.
kill(c) ==
    IF c.state = "running"
    THEN [state |-> "exited", killed |-> TRUE]
    ELSE c

\* Child::wait, called on a child that does not run any more: reaps it.
wait(c) ==
    IF c.state = "exited" THEN [c EXCEPT !.state = "reaped"] ELSE c

\* Variant of drop that kills the child and does not wait on it.
drop_kill_only(c) == kill(c)

\* KillOnDropProcessHandle::drop: self.inner.kill().ok();
\* self.inner.wait().ok()
drop(c) == wait(kill(c))

CaptureInit ==
    /\ ServerInit
    /\ RunnerInit
    /\ ValidatorIdle
    /\ InventoryIdle
    /\ UnordIdle
    /\ ElfIdle
    /\ DrainIdle
    /\ LegacyIdle
    /\ capture = [a \in Analyzers |-> NoCapture]
    /\ child = [a \in Analyzers |-> NoChild]

\* The function returns an error or the capture is dropped: the handle is
\* destroyed, which runs its drop.
Destroy(a, pc, c) ==
    /\ capture' = [capture EXCEPT ![a] = [pc |-> pc, handle |-> "dropped"]]
    /\ child' = [child EXCEPT ![a] = drop(c)]

\* start_capture: command.spawn()?
StartCapture(a) ==
    /\ capture[a].pc = "idle"
    /\ \E spawned \in BOOLEAN :
        IF spawned
        THEN /\ capture' = [capture EXCEPT ![a] =
                                [pc |-> "take_stdout", handle |-> "live"]]
             /\ child' = [child EXCEPT ![a] =
                              [state |-> "running", killed |-> FALSE]]
        ELSE /\ capture' = [capture EXCEPT ![a] =
                                [pc |-> "failed", handle |-> "none"]]
             /\ UNCHANGED child
    /\ UNCHANGED <<server_vars, runner_vars, validator_vars, inventory_vars,
                   unord_vars, elf_vars, drain_vars, legacy_vars>>

\* process_handle.inner.stdout.take().ok_or_else(..)?
TakeStdout(a) ==
    /\ capture[a].pc = "take_stdout"
    /\ \E stdout \in BOOLEAN :
        IF stdout
        THEN /\ capture' = [capture EXCEPT ![a].pc = "sleep"]
             /\ UNCHANGED child
        ELSE Destroy(a, "failed", child[a])
    /\ UNCHANGED <<server_vars, runner_vars, validator_vars, inventory_vars,
                   unord_vars, elf_vars, drain_vars, legacy_vars>>

\* sleep(50 ms), then error_if_process_exited_prematurely(..)?: try_wait()?
\* may fail by itself, finds the exit status, or finds the child running.
CheckStarted(a) ==
    /\ capture[a].pc = "sleep"
    /\ \E io_ok \in BOOLEAN :
        LET r == try_wait(child[a]) IN
        IF ~io_ok THEN Destroy(a, "failed", child[a])
        ELSE IF r.exited THEN Destroy(a, "failed", r.child)
        ELSE /\ capture' = [capture EXCEPT ![a].pc = "active"]
             /\ child' = [child EXCEPT ![a] = r.child]
    /\ UNCHANGED <<server_vars, runner_vars, validator_vars, inventory_vars,
                   unord_vars, elf_vars, drain_vars, legacy_vars>>

\* stop_capture(self): error_if_process_exited_prematurely(..)? returns
\* the error and drops self; else core::mem::drop(self.process_handle).
StopCapture(a) ==
    /\ capture[a].pc = "active"
    /\ \E io_ok \in BOOLEAN :
        LET r == try_wait(child[a]) IN
        IF ~io_ok THEN Destroy(a, "stop_failed", child[a])
        ELSE IF r.exited THEN Destroy(a, "stop_failed", r.child)
        ELSE Destroy(a, "join", r.child)
    /\ UNCHANGED <<server_vars, runner_vars, validator_vars, inventory_vars,
                   unord_vars, elf_vars, drain_vars, legacy_vars>>

\* Ok(self.process_stdout_handle.await??)
JoinStdout(a) ==
    /\ capture[a].pc = "join"
    /\ \E ok \in BOOLEAN :
        capture' = [capture EXCEPT ![a].pc =
                        IF ok THEN "stopped" ELSE "stop_failed"]
    /\ UNCHANGED <<child, server_vars, runner_vars, validator_vars,
                   inventory_vars, unord_vars, elf_vars, drain_vars,
                   legacy_vars>>

\* The ActiveCapture leaves scope without stop_capture.
DropCapture(a) ==
    /\ capture[a].pc = "active"
    /\ Destroy(a, "dropped", child[a])
    /\ UNCHANGED <<server_vars, runner_vars, validator_vars, inventory_vars,
                   unord_vars, elf_vars, drain_vars, legacy_vars>>

\* sigrok-cli exits by itself.
ChildExits(a) ==
    /\ child[a].state = "running"
    /\ child' = [child EXCEPT ![a].state = "exited"]
    /\ UNCHANGED <<capture, server_vars, runner_vars, validator_vars,
                   inventory_vars, unord_vars, elf_vars, drain_vars,
                   legacy_vars>>

CaptureNext ==
    \/ \E a \in Analyzers : StartCapture(a)
    \/ \E a \in Analyzers : TakeStdout(a)
    \/ \E a \in Analyzers : CheckStarted(a)
    \/ \E a \in Analyzers : StopCapture(a)
    \/ \E a \in Analyzers : JoinStdout(a)
    \/ \E a \in Analyzers : DropCapture(a)
    \/ \E a \in Analyzers : ChildExits(a)

CaptureSpec == CaptureInit /\ [][CaptureNext]_vars

\* C40: a child that was spawned is killed, unless it exited before, and
\* waited on when its handle is destroyed, on every way the handle goes:
\* start_capture failing after the spawn, stop_capture succeeding or
\* failing, the capture dropped without stop_capture; no child is left
\* running or as a zombie without a handle.
C40_DestroyedHandleReapsChild ==
    \A a \in Analyzers :
        /\ capture[a].handle = "dropped" => child[a].state = "reaped"
        /\ capture[a].handle = "none" => child[a] = NoChild
        /\ child[a].state \in {"running", "exited"} =>
               capture[a].handle = "live"

\* One capture was dropped without stop_capture and its running child was
\* killed; the other's child exited before stop_capture, which failed.
C40_Witness ==
    \E a, b \in Analyzers :
        /\ capture[a].pc = "dropped"
        /\ child[a].killed
        /\ capture[b].pc = "stop_failed"
        /\ ~child[b].killed
        /\ child[b].state = "reaped"

====
